---- MODULE Spec2Model ----
(***************************************************************************)
(* Model of the PayChangu Go client (package paychangu).                   *)
(*                                                                         *)
(* Text (Go strings, raw response bodies, error messages) is a sequence of *)
(* tokens; a token is a chunk of characters.  The characters that JSON     *)
(* escapes (the double quote and the backslash) and the '%' of a format    *)
(* verb are tokens of their own, so that encoding and formatting are       *)
(* computed and not assumed.  A response body is either text that is not   *)
(* JSON or a JSON document, kept as its syntax tree; Render gives the      *)
(* bytes on the wire and Decode does what encoding/json does when it       *)
(* unmarshals the document into a Go type.                                 *)
(***************************************************************************)
EXTENDS Integers, Sequences, FiniteSets, TLC

(***************************************************************************)
(* Text                                                                    *)
(***************************************************************************)
Quote == "\""
Backslash == "\\"

\* strings.Contains on token sequences
Contains(t, s) ==
  \E i \in 0..(Len(t) - Len(s)) : SubSeq(t, i + 1, i + Len(s)) = s

RECURSIVE Concat(_)
Concat(ss) == IF ss = <<>> THEN <<>> ELSE Head(ss) \o Concat(Tail(ss))

\* the elements of ss with sep between them
RECURSIVE JoinWith(_, _)
JoinWith(ss, sep) ==
  IF ss = <<>> THEN <<>>
  ELSE IF Len(ss) = 1 THEN ss[1]
  ELSE ss[1] \o sep \o JoinWith(Tail(ss), sep)

Tokens(t) == {t[i] : i \in 1..Len(t)}

(***************************************************************************)
(* JSON documents                                                          *)
(***************************************************************************)
JNull == [t |-> "null", s |-> <<>>, kids |-> <<>>]
JStr(s) == [t |-> "str", s |-> s, kids |-> <<>>]
JNum(s) == [t |-> "num", s |-> s, kids |-> <<>>]
JBool(s) == [t |-> "bool", s |-> s, kids |-> <<>>]
JObj(kids) == [t |-> "obj", s |-> <<>>, kids |-> kids]
JArr(items) ==
  [t |-> "arr", s |-> <<>>, kids |-> [i \in 1..Len(items) |-> <<"", items[i]>>]]

HasKey(n, key) == \E i \in 1..Len(n.kids) : n.kids[i][1] = key
\* encoding/json keeps the last of several members of one name
GetKey(n, key) ==
  LET i == CHOOSE j \in 1..Len(n.kids) :
             /\ n.kids[j][1] = key
             /\ \A l \in 1..Len(n.kids) : n.kids[l][1] = key => l <= j
  IN n.kids[i][2]

\* the JSON escapes of a string's characters
RECURSIVE JsonEscape(_)
JsonEscape(s) ==
  IF s = <<>> THEN <<>>
  ELSE IF Head(s) \in {Quote, Backslash}
       THEN <<Backslash, Head(s)>> \o JsonEscape(Tail(s))
       ELSE <<Head(s)>> \o JsonEscape(Tail(s))

JsonString(s) == <<Quote>> \o JsonEscape(s) \o <<Quote>>

\* the document as text on the wire
RECURSIVE Render(_)
Render(n) ==
  CASE n.t = "null" -> <<"null">>
    [] n.t = "str" -> JsonString(n.s)
    [] n.t = "num" -> n.s
    [] n.t = "bool" -> n.s
    [] n.t = "arr" ->
         <<"[">> \o JoinWith([i \in 1..Len(n.kids) |-> Render(n.kids[i][2])], <<",">>)
                 \o <<"]">>
    [] n.t = "obj" ->
         <<"{">> \o JoinWith([i \in 1..Len(n.kids) |->
                                JsonString(<<n.kids[i][1]>>) \o <<":">>
                                  \o Render(n.kids[i][2])], <<",">>)
                 \o <<"}">>

\* A response body: a JSON document, or text that is no JSON value.
JsonBody(n) == [json |-> TRUE, node |-> n, text |-> <<>>]
TextBody(t) == [json |-> FALSE, node |-> JNull, text |-> t]
\* string(bo)
Raw(b) == IF b.json THEN Render(b.node) ELSE b.text

(***************************************************************************)
(* Go types and values (interfaces.go)                                     *)
(***************************************************************************)
TString == [k |-> "string", f |-> <<>>]
TFloat64 == [k |-> "float64", f |-> <<>>]
TInt == [k |-> "int", f |-> <<>>]
TBool == [k |-> "bool", f |-> <<>>]
TTime == [k |-> "time", f |-> <<>>]
TAny == [k |-> "interface", f |-> <<>>]
TMap == [k |-> "map", f |-> <<>>]
Ptr(T) == [k |-> "ptr", f |-> <<<<"", T>>>>]
Slice(T) == [k |-> "slice", f |-> <<<<"", T>>>>]
Struct(fields) == [k |-> "struct", f |-> fields]

\* type Error struct
Error == Struct(<<
  <<"status", TString>>,
  <<"message", TString>> >>)

\* type Response struct
Response == Struct(<<
  <<"message", TString>>,
  <<"status", TString>>,
  <<"data", Struct(<<
     <<"event", TString>>,
     <<"checkout_url", TString>>,
     <<"data", Struct(<<
        <<"tx_ref", TString>>,
        <<"currency", TString>>,
        <<"amount", TFloat64>>,
        <<"mode", TString>>,
        <<"status", TString>> >>)>> >>)>> >>)

\* type Customization struct
Customization == Struct(<<
  <<"title", TString>>,
  <<"description", TString>>,
  <<"logo", TString>> >>)

\* type PaymentAuthorization struct
PaymentAuthorization == Struct(<<
  <<"channel", TString>>,
  <<"card_number", TString>>,
  <<"expiry", TString>>,
  <<"brand", TString>>,
  <<"provider", TString>>,
  <<"mobile_number", TString>>,
  <<"completed_at", TString>> >>)

\* type CustomerInfo struct
CustomerInfo == Struct(<<
  <<"email", TString>>,
  <<"first_name", TString>>,
  <<"last_name", TString>> >>)

\* type PaymentLog struct
PaymentLog == Struct(<<
  <<"type", TString>>,
  <<"message", TString>>,
  <<"created_at", TTime>> >>)

\* type PaymentDetails struct
PaymentDetails == Struct(<<
  <<"event_type", TString>>,
  <<"tx_ref", TString>>,
  <<"mode", TString>>,
  <<"type", TString>>,
  <<"status", TString>>,
  <<"number_of_attempts", TInt>>,
  <<"reference", TString>>,
  <<"currency", TString>>,
  <<"amount", TFloat64>>,
  <<"charges", TFloat64>>,
  <<"customization", Customization>>,
  <<"meta", TAny>>,
  <<"authorization", PaymentAuthorization>>,
  <<"customer", CustomerInfo>>,
  <<"logs", Slice(PaymentLog)>>,
  <<"created_at", TTime>>,
  <<"updated_at", TTime>> >>)

\* type VerifyPaymentResponse struct
VerifyPaymentResponse == Struct(<<
  <<"status", TString>>,
  <<"message", TString>>,
  <<"data", PaymentDetails>> >>)

\* type MobileMoneyOperator struct
MobileMoneyOperator == Struct(<<
  <<"id", TInt>>,
  <<"name", TString>>,
  <<"ref_id", TString>>,
  <<"live_mode", TInt>>,
  <<"short_code", TString>>,
  <<"logo", Ptr(TString)>>,
  <<"operator_fee", TString>>,
  <<"payment_percent_fee", TString>>,
  <<"payment_fiat_fee", Ptr(TString)>>,
  <<"payout_percent_fee", Ptr(TString)>>,
  <<"payout_fiat_fee", Ptr(TString)>>,
  <<"supports_withdrawals", TBool>>,
  <<"supported_country", Struct(<<
     <<"name", TString>>,
     <<"currency", TString>> >>)>> >>)

\* type MobileMoneyOperatorsResponse struct
MobileMoneyOperatorsResponse == Struct(<<
  <<"status", TString>>,
  <<"message", TString>>,
  <<"data", Slice(MobileMoneyOperator)>> >>)

\* type PayoutTransactionDetails struct
PayoutTransactionDetails == Struct(<<
  <<"charge_id", TString>>,
  <<"ref_id", TString>>,
  <<"trans_id", Ptr(TString)>>,
  <<"currency", TString>>,
  <<"amount", TFloat64>>,
  <<"first_name", Ptr(TString)>>,
  <<"last_name", Ptr(TString)>>,
  <<"email", Ptr(TString)>>,
  <<"type", TString>>,
  <<"trace_id", Ptr(TString)>>,
  <<"status", TString>>,
  <<"mobile", TString>>,
  <<"attempts", TInt>>,
  <<"mode", TString>>,
  <<"created_at", TTime>>,
  <<"completed_at", TTime>>,
  <<"event_type", TString>>,
  <<"mobile_money", Struct(<<
     <<"name", TString>>,
     <<"ref_id", TString>>,
     <<"country", TString>> >>)>>,
  <<"transaction_charges", Struct(<<
     <<"currency", TString>>,
     <<"amount", TString>> >>)>>,
  <<"customer", Ptr(TAny)>> >>)

\* type MobileMoneyPayoutResponse struct
MobileMoneyPayoutResponse == Struct(<<
  <<"status", TString>>,
  <<"message", TString>>,
  <<"data", Struct(<< <<"transaction", PayoutTransactionDetails>> >>)>> >>)

\* type MobileMoneyPayoutErrorResponse struct
MobileMoneyPayoutErrorResponse == Struct(<<
  <<"status", TString>>,
  <<"data", TAny>>,
  <<"message", TMap>> >>)

\* type GetMobileMoneyPayoutDetailsResponse struct
GetMobileMoneyPayoutDetailsResponse == Struct(<<
  <<"status", TString>>,
  <<"message", TString>>,
  <<"data", PayoutTransactionDetails>> >>)

\* faulty variant: the uuid member under a wrong JSON name
Bank_wrongTag == Struct(<<
  <<"id", TString>>,
  <<"name", TString>> >>)
\* type Bank struct
Bank == Struct(<<
  <<"uuid", TString>>,
  <<"name", TString>> >>)

\* type BanksResponse struct
BanksResponse == Struct(<<
  <<"status", TString>>,
  <<"message", TString>>,
  <<"data", Slice(Bank)>> >>)

\* type RecipientAccountDetails struct
RecipientAccountDetails == Struct(<<
  <<"bank_uuid", TString>>,
  <<"bank_name", TString>>,
  <<"account_name", TString>>,
  <<"account_number", TString>> >>)

\* type BankPayoutTransactionDetails struct
BankPayoutTransactionDetails == Struct(<<
  <<"charge_id", TString>>,
  <<"ref_id", TString>>,
  <<"trans_id", Ptr(TString)>>,
  <<"currency", TString>>,
  <<"amount", TFloat64>>,
  <<"first_name", Ptr(TString)>>,
  <<"last_name", Ptr(TString)>>,
  <<"email", Ptr(TString)>>,
  <<"type", TString>>,
  <<"trace_id", Ptr(TString)>>,
  <<"status", TString>>,
  <<"mobile", TString>>,
  <<"attempts", TInt>>,
  <<"mode", TString>>,
  <<"created_at", TTime>>,
  <<"completed_at", Ptr(TTime)>>,
  <<"event_type", TString>>,
  <<"transaction_charges", Struct(<<
     <<"currency", TString>>,
     <<"amount", TString>> >>)>>,
  <<"recipient_account_details", RecipientAccountDetails>> >>)

\* type BankPayoutResponse struct
BankPayoutResponse == Struct(<<
  <<"status", TString>>,
  <<"message", TString>>,
  <<"data", Struct(<< <<"transaction", BankPayoutTransactionDetails>> >>)>> >>)

\* type GetBankPayoutDetailsResponse struct
GetBankPayoutDetailsResponse == Struct(<<
  <<"status", TString>>,
  <<"message", TString>>,
  <<"data", BankPayoutTransactionDetails>> >>)

(***************************************************************************)
(* encoding/json: Unmarshal / Decoder.Decode of a document into a Go type  *)
(***************************************************************************)
GoVal(k, isNil, s, kids) == [k |-> k, nil |-> isNil, s |-> s, kids |-> kids]

ZeroTime == <<"0001-01-01", "T", "00:00:00", "Z">>
\* what time.Time's UnmarshalJSON accepts: date "T" clock zone
IsRFC3339(s) == Len(s) = 4 /\ s[2] = "T" /\ s[4] = "Z"
\* a JSON number with no fraction and no exponent
IsIntLit(s) == "." \notin Tokens(s) /\ "e" \notin Tokens(s)

\* the zero value of a Go type
RECURSIVE Zero(_)
Zero(T) ==
  CASE T.k = "string" -> GoVal("string", FALSE, <<>>, <<>>)
    [] T.k = "float64" -> GoVal("float64", FALSE, <<"0">>, <<>>)
    [] T.k = "int" -> GoVal("int", FALSE, <<"0">>, <<>>)
    [] T.k = "bool" -> GoVal("bool", FALSE, <<"false">>, <<>>)
    [] T.k = "time" -> GoVal("time", FALSE, ZeroTime, <<>>)
    [] T.k = "struct" ->
         GoVal("struct", FALSE, <<>>,
               [i \in 1..Len(T.f) |-> <<T.f[i][1], Zero(T.f[i][2])>>])
    [] OTHER -> GoVal(T.k, TRUE, <<>>, <<>>)   \* pointer, slice, map, interface

\* The result of unmarshalling document n into a value of type T:
\* ok is FALSE when encoding/json reports an error.  A JSON null and an
\* absent member leave the zero value; a member the type does not have is
\* skipped; a value of the wrong JSON kind is an UnmarshalTypeError.
RECURSIVE Decode(_, _)
Decode(n, T) ==
  IF n.t = "null" THEN [ok |-> TRUE, v |-> Zero(T)]
  ELSE
  CASE T.k = "string" ->
         IF n.t = "str" THEN [ok |-> TRUE, v |-> GoVal("string", FALSE, n.s, <<>>)]
         ELSE [ok |-> FALSE, v |-> Zero(T)]
    [] T.k = "float64" ->
         IF n.t = "num" THEN [ok |-> TRUE, v |-> GoVal("float64", FALSE, n.s, <<>>)]
         ELSE [ok |-> FALSE, v |-> Zero(T)]
    [] T.k = "int" ->
         IF n.t = "num" /\ IsIntLit(n.s)
         THEN [ok |-> TRUE, v |-> GoVal("int", FALSE, n.s, <<>>)]
         ELSE [ok |-> FALSE, v |-> Zero(T)]
    [] T.k = "bool" ->
         IF n.t = "bool" THEN [ok |-> TRUE, v |-> GoVal("bool", FALSE, n.s, <<>>)]
         ELSE [ok |-> FALSE, v |-> Zero(T)]
    [] T.k = "time" ->
         IF n.t = "str" /\ IsRFC3339(n.s)
         THEN [ok |-> TRUE, v |-> GoVal("time", FALSE, n.s, <<>>)]
         ELSE [ok |-> FALSE, v |-> Zero(T)]
    [] T.k = "interface" ->
         [ok |-> TRUE, v |-> GoVal("interface", FALSE, Render(n), <<>>)]
    [] T.k = "ptr" ->
         LET d == Decode(n, T.f[1][2])
         IN [ok |-> d.ok, v |-> GoVal("ptr", FALSE, <<>>, << <<"", d.v>> >>)]
    [] T.k = "slice" ->
         IF n.t = "arr"
         THEN LET ds == [i \in 1..Len(n.kids) |-> Decode(n.kids[i][2], T.f[1][2])]
              IN [ok |-> \A i \in 1..Len(n.kids) : ds[i].ok,
                  v |-> GoVal("slice", FALSE, <<>>,
                              [i \in 1..Len(n.kids) |-> <<"", ds[i].v>>])]
         ELSE [ok |-> FALSE, v |-> Zero(T)]
    [] T.k = "map" ->    \* map[string][]string
         IF n.t = "obj"
         THEN LET ds == [i \in 1..Len(n.kids) |-> Decode(n.kids[i][2], Slice(TString))]
              IN [ok |-> \A i \in 1..Len(n.kids) : ds[i].ok,
                  v |-> GoVal("map", FALSE, <<>>,
                              [i \in 1..Len(n.kids) |-> <<n.kids[i][1], ds[i].v>>])]
         ELSE [ok |-> FALSE, v |-> Zero(T)]
    [] T.k = "struct" ->
         IF n.t = "obj"
         THEN LET ds == [i \in 1..Len(T.f) |->
                           IF HasKey(n, T.f[i][1])
                           THEN Decode(GetKey(n, T.f[i][1]), T.f[i][2])
                           ELSE [ok |-> TRUE, v |-> Zero(T.f[i][2])]]
              IN [ok |-> \A i \in 1..Len(T.f) : ds[i].ok,
                  v |-> GoVal("struct", FALSE, <<>>,
                              [i \in 1..Len(T.f) |-> <<T.f[i][1], ds[i].v>>])]
         ELSE [ok |-> FALSE, v |-> Zero(T)]

\* json.Unmarshal(bo, &v) and json.NewDecoder(resp.Body).Decode(&v) of a body
Unmarshal(b, T) ==
  IF b.json THEN Decode(b.node, T) ELSE [ok |-> FALSE, v |-> Zero(T)]

\* the field of a struct value, by its JSON name
Field(v, name) ==
  LET i == CHOOSE j \in 1..Len(v.kids) : v.kids[j][1] = name IN v.kids[i][2]

HasField(v, name) == \E j \in 1..Len(v.kids) : v.kids[j][1] = name

(***************************************************************************)
(* Errors and results                                                      *)
(***************************************************************************)
StatusOK == 200
\* faulty variant: 200 taken for the success status of InitiatePayment
StatusCreated_ok == StatusOK
StatusCreated == 201

\* a Go error value: nil, or an error with its dynamic type and its Error()
\* text
NoError == [nil |-> TRUE, text |-> <<>>, type |-> "nil"]
\* an error of the given dynamic type
TypedError(type, text) == [nil |-> FALSE, text |-> text, type |-> type]
\* faulty variant: no error made of an empty text
NewError_nilWhenEmpty(text) ==
  IF text = <<>> THEN NoError ELSE TypedError("*errors.errorString", text)
\* errors.New(text), and fmt.Errorf with no %w verb, which returns
\* errors.New of the formatted text
NewError(text) == TypedError("*errors.errorString", text)

\* the nil pointer / nil slice returned beside an error
NilResult == GoVal("nil", TRUE, <<>>, <<>>)

Outcome(result, err) == [result |-> result, err |-> err]
\* faulty variant: the address of the (zero) response returned with the error
Fail_withResponse(err) == Outcome(GoVal("struct", FALSE, <<>>, <<>>), err)
Fail(err) == Outcome(NilResult, err)

\* fmt's %d of a status code
FmtD(code) == <<ToString(code)>>

\* fmt.Sprintf(format) with no operands, as fmt.Errorf(response.Message) calls
\* it: the token after a '%' is the verb; "%%" prints '%', any other verb
\* has no operand and prints "%!v(MISSING)", a trailing '%' "%!(NOVERB)".
RECURSIVE SprintfNoArgs(_)
SprintfNoArgs(f) ==
  IF f = <<>> THEN <<>>
  ELSE IF Head(f) # "%" THEN <<Head(f)>> \o SprintfNoArgs(Tail(f))
  ELSE IF Len(f) = 1 THEN <<"%!(NOVERB)">>
  ELSE IF f[2] = "%" THEN <<"%">> \o SprintfNoArgs(Tail(Tail(f)))
  ELSE <<"%!", f[2], "(MISSING)">> \o SprintfNoArgs(Tail(Tail(f)))

\* the error io.ReadAll returns when the body cannot be read to its end
ReadError == NewError(<<"unexpected EOF">>)
\* the error encoding/json returns for a body it cannot decode into the type
JsonError(b) ==
  IF b.json THEN TypedError("*json.UnmarshalTypeError", <<"json: cannot unmarshal">>)
  ELSE TypedError("*json.SyntaxError", <<"invalid character">>)
\* the error of json.NewDecoder(resp.Body).Decode: the read error, or json's
DecoderError(resp) == IF resp.readOK THEN JsonError(resp.body) ELSE ReadError

\* faulty variant: the decoded message left out of the error
APIError_noMessage(code, msg) == NewError(<<"API error (">> \o FmtD(code) \o <<")">>)
\* fmt.Errorf("API error (%d): %s", resp.StatusCode, msg)
APIError(code, msg) == NewError(<<"API error (">> \o FmtD(code) \o <<"): ">> \o msg)
\* faulty variant: the fallback error without the status code
APIRequestFailed_noCode(code, bo) == NewError(<<"API request failed: ">> \o bo)
\* fmt.Errorf("API request failed with status %d: %s", resp.StatusCode, string(bo))
APIRequestFailed(code, bo) ==
  NewError(<<"API request failed with status ">> \o FmtD(code) \o <<": ">> \o bo)
\* errors.Join(errors.New("validation failed"), errors.New(string(bo))).Error()
JoinValidationFailed(bo) == <<"validation failed", "\n">> \o bo

\* the orders in which a range over a map of n keys can visit them
MapOrders(n) ==
  {p \in [1..n -> 1..n] : \A i, j \in 1..n : p[i] = p[j] => i = j}

\* for field, messages := range apiErr.Message { for _, msg := range messages {
\*   errorMessages = append(errorMessages, fmt.Sprintf("%s: %s", field, msg)) } }
\* with the map visited in order ord
ErrorMessages(m, ord) ==
  Concat([i \in 1..Len(ord) |->
            LET kv == m.kids[ord[i]]
            IN [j \in 1..Len(kv[2].kids) |-> <<kv[1], ": ">> \o kv[2].kids[j][2].s]])

\* the number of keys of the body's message member, when it is an object
MessageKeys(b) ==
  IF b.json /\ b.node.t = "obj" /\ HasKey(b.node, "message")
       /\ GetKey(b.node, "message").t = "obj"
  THEN Len(GetKey(b.node, "message").kids)
  ELSE 0

(***************************************************************************)
(* The eight operations, from the response on (transaction.go).            *)
(* resp = [code, body, readOK]: the status code, the body the server sent  *)
(* and whether reading it reaches its end.  Each gives the (result, error) *)
(* pair the method returns.                                                *)
(***************************************************************************)
\* fmt.Errorf(prefix + ": %w", err)
Wrap(prefix, err) == TypedError("*fmt.wrapError", <<prefix, ": ">> \o err.text)

\* faulty variant: the status member taken for the message
MessageOf_status(v) == Field(v, "status").s
\* response.Status, response.Message of a decoded response
StatusOf(v) == Field(v, "status").s
MessageOf(v) == Field(v, "message").s

\* func (p *payChangu) InitiatePayment, after client.Do
InitiatePayment(resp) ==
  IF resp.code # StatusCreated
  THEN IF ~resp.readOK THEN Fail(ReadError)
       ELSE Fail(NewError(Raw(resp.body)))
  ELSE IF ~resp.readOK THEN Fail(ReadError)
  ELSE LET d == Unmarshal(resp.body, Response)
       IN IF ~d.ok THEN Fail(JsonError(resp.body))
          ELSE Outcome(d.v, NoError)

\* func (p *payChangu) VerifyPayment, after client.Do
VerifyPayment(resp) ==
  IF resp.code # StatusOK
  THEN LET d == Unmarshal(resp.body, Error)
       IN IF ~resp.readOK \/ ~d.ok THEN Fail(DecoderError(resp))
          ELSE Fail(NewError(SprintfNoArgs(MessageOf(d.v))))
  ELSE LET d == Unmarshal(resp.body, VerifyPaymentResponse)
       IN IF ~resp.readOK \/ ~d.ok THEN Fail(DecoderError(resp))
          ELSE IF StatusOf(d.v) # <<"success">>
               THEN Fail(NewError(MessageOf(d.v)))
               ELSE Outcome(d.v, NoError)

\* faulty variant: a success without a list of operators is an error
GetMobileMoneyOperators_requiresData(resp) ==
  IF resp.code # StatusOK
  THEN IF ~resp.readOK
       THEN Fail(Wrap("failed to read error response body", ReadError))
       ELSE LET d == Unmarshal(resp.body, Error)
            IN IF d.ok /\ MessageOf(d.v) # <<>>
               THEN Fail(APIError(resp.code, MessageOf(d.v)))
               ELSE Fail(APIRequestFailed(resp.code, Raw(resp.body)))
  ELSE LET d == Unmarshal(resp.body, MobileMoneyOperatorsResponse)
       IN IF ~resp.readOK \/ ~d.ok
          THEN Fail(Wrap("failed to decode response", DecoderError(resp)))
          ELSE IF StatusOf(d.v) # <<"success">>
               THEN Fail(NewError(MessageOf(d.v)))
               ELSE IF Field(d.v, "data").nil
               THEN Fail(NewError(<<"no operators">>))
               ELSE Outcome(Field(d.v, "data"), NoError)
\* func (p *payChangu) GetMobileMoneyOperators, after client.Do
GetMobileMoneyOperators(resp) ==
  IF resp.code # StatusOK
  THEN IF ~resp.readOK
       THEN Fail(Wrap("failed to read error response body", ReadError))
       ELSE LET d == Unmarshal(resp.body, Error)
            IN IF d.ok /\ MessageOf(d.v) # <<>>
               THEN Fail(APIError(resp.code, MessageOf(d.v)))
               ELSE Fail(APIRequestFailed(resp.code, Raw(resp.body)))
  ELSE LET d == Unmarshal(resp.body, MobileMoneyOperatorsResponse)
       IN IF ~resp.readOK \/ ~d.ok
          THEN Fail(Wrap("failed to decode response", DecoderError(resp)))
          ELSE IF StatusOf(d.v) # <<"success">>
               THEN Fail(NewError(MessageOf(d.v)))
               ELSE Outcome(Field(d.v, "data"), NoError)

\* faulty variant: the validation error without the response body
MobileValidationError_noBody(code, bo, errorMessages) ==
  APIError(code, <<"validation failed">>)
\* faulty variant: the validation error built from the flattened messages, in
\* the order the map was visited
MobileValidationError_flattened(code, bo, errorMessages) ==
  APIError(code, JoinWith(errorMessages, <<"; ">>))
\* transaction.go:293, the validation error of InitiateMobileMoneyPayout
MobileValidationError(code, bo, errorMessages) ==
  APIError(code, JoinValidationFailed(bo))

\* func (p *payChangu) InitiateMobileMoneyPayout, after client.Do; ord is the
\* order in which the range over apiErr.Message visits the map
InitiateMobileMoneyPayout(resp, ord) ==
  IF resp.code # StatusOK
  THEN IF ~resp.readOK THEN Fail(ReadError)
       ELSE LET d == Unmarshal(resp.body, MobileMoneyPayoutErrorResponse)
                bo == Raw(resp.body)
            IN IF d.ok /\ StatusOf(d.v) = <<"failed">>
               THEN LET m == Field(d.v, "message")
                        errorMessages == IF ~m.nil THEN ErrorMessages(m, ord) ELSE <<>>
                    IN IF Len(errorMessages) > 0
                       THEN Fail(MobileValidationError(resp.code, bo, errorMessages))
                       ELSE Fail(APIError(resp.code, bo))
               ELSE Fail(APIRequestFailed(resp.code, bo))
  ELSE IF ~resp.readOK THEN Fail(ReadError)
  ELSE LET d == Unmarshal(resp.body, MobileMoneyPayoutResponse)
       IN IF ~d.ok THEN Fail(JsonError(resp.body))
          ELSE IF StatusOf(d.v) # <<"success">>
               THEN Fail(NewError(MessageOf(d.v)))
               ELSE Outcome(d.v, NoError)

\* faulty variant: the literal of the bank details endpoint taken for this one
GetMobileMoneyPayoutDetails_successful(resp) ==
  IF resp.code # StatusOK
  THEN IF ~resp.readOK THEN Fail(ReadError)
       ELSE LET d == Unmarshal(resp.body, Error)
            IN IF d.ok /\ MessageOf(d.v) # <<>>
               THEN Fail(APIError(resp.code, MessageOf(d.v)))
               ELSE Fail(APIRequestFailed(resp.code, Raw(resp.body)))
  ELSE LET d == Unmarshal(resp.body, GetMobileMoneyPayoutDetailsResponse)
       IN IF ~resp.readOK \/ ~d.ok THEN Fail(DecoderError(resp))
          ELSE IF StatusOf(d.v) # <<"successful">>
               THEN Fail(NewError(MessageOf(d.v)))
               ELSE Outcome(Field(d.v, "data"), NoError)
\* func (p *payChangu) GetMobileMoneyPayoutDetails, after client.Do
GetMobileMoneyPayoutDetails(resp) ==
  IF resp.code # StatusOK
  THEN IF ~resp.readOK THEN Fail(ReadError)
       ELSE LET d == Unmarshal(resp.body, Error)
            IN IF d.ok /\ MessageOf(d.v) # <<>>
               THEN Fail(APIError(resp.code, MessageOf(d.v)))
               ELSE Fail(APIRequestFailed(resp.code, Raw(resp.body)))
  ELSE LET d == Unmarshal(resp.body, GetMobileMoneyPayoutDetailsResponse)
       IN IF ~resp.readOK \/ ~d.ok THEN Fail(DecoderError(resp))
          ELSE IF StatusOf(d.v) # <<"success">>
               THEN Fail(NewError(MessageOf(d.v)))
               ELSE Outcome(Field(d.v, "data"), NoError)

\* faulty variant: the body looked at before the status code
GetSupportedBanks_bodyFirst(resp) ==
  LET d == Unmarshal(resp.body, BanksResponse)
  IN IF resp.readOK /\ d.ok /\ StatusOf(d.v) = <<"success">>
     THEN Outcome(Field(d.v, "data"), NoError)
     ELSE IF resp.code # StatusOK
     THEN IF ~resp.readOK THEN Fail(ReadError)
          ELSE LET g == Unmarshal(resp.body, Error)
               IN IF g.ok /\ MessageOf(g.v) # <<>>
                  THEN Fail(APIError(resp.code, MessageOf(g.v)))
                  ELSE Fail(APIRequestFailed(resp.code, Raw(resp.body)))
     ELSE IF ~resp.readOK \/ ~d.ok THEN Fail(DecoderError(resp))
     ELSE Fail(NewError(MessageOf(d.v)))
\* func (p *payChangu) GetSupportedBanks, after client.Do
GetSupportedBanks(resp) ==
  IF resp.code # StatusOK
  THEN IF ~resp.readOK THEN Fail(ReadError)
       ELSE LET d == Unmarshal(resp.body, Error)
            IN IF d.ok /\ MessageOf(d.v) # <<>>
               THEN Fail(APIError(resp.code, MessageOf(d.v)))
               ELSE Fail(APIRequestFailed(resp.code, Raw(resp.body)))
  ELSE LET d == Unmarshal(resp.body, BanksResponse)
       IN IF ~resp.readOK \/ ~d.ok THEN Fail(DecoderError(resp))
          ELSE IF StatusOf(d.v) # <<"success">>
               THEN Fail(NewError(MessageOf(d.v)))
               ELSE Outcome(Field(d.v, "data"), NoError)

\* faulty variant: the validation error built from the flattened messages, in
\* the order the map was visited
BankValidationError_flattened(code, bo, errorMessages) ==
  NewError(<<"API error (">> \o FmtD(code) \o <<"): validation failed: ">>
             \o JoinWith(errorMessages, <<"; ">>))
\* transaction.go:544, the validation error of InitiateBankPayout
BankValidationError(code, bo, errorMessages) ==
  NewError(<<"API error (">> \o FmtD(code) \o <<"): validation failed: ">>
             \o JoinValidationFailed(bo))

\* faulty variant: no fallback to the generic error, as in
\* InitiateMobileMoneyPayout
InitiateBankPayout_noFallback(resp, ord) ==
  IF resp.code # StatusOK
  THEN IF ~resp.readOK
       THEN Fail(Wrap("failed to read error response body", ReadError))
       ELSE LET d == Unmarshal(resp.body, MobileMoneyPayoutErrorResponse)
                bo == Raw(resp.body)
                m == Field(d.v, "message")
                errorMessages ==
                  IF d.ok /\ StatusOf(d.v) = <<"failed">> /\ ~m.nil
                  THEN ErrorMessages(m, ord) ELSE <<>>
            IN IF Len(errorMessages) > 0
               THEN Fail(BankValidationError(resp.code, bo, errorMessages))
               ELSE Fail(APIRequestFailed(resp.code, bo))
  ELSE IF ~resp.readOK THEN Fail(ReadError)
  ELSE LET d == Unmarshal(resp.body, BankPayoutResponse)
       IN IF ~d.ok THEN Fail(JsonError(resp.body))
          ELSE IF StatusOf(d.v) # <<"success">>
               THEN Fail(NewError(MessageOf(d.v)))
               ELSE Outcome(d.v, NoError)
\* func (p *payChangu) InitiateBankPayout, after client.Do
InitiateBankPayout(resp, ord) ==
  IF resp.code # StatusOK
  THEN IF ~resp.readOK
       THEN Fail(Wrap("failed to read error response body", ReadError))
       ELSE LET d == Unmarshal(resp.body, MobileMoneyPayoutErrorResponse)
                bo == Raw(resp.body)
                m == Field(d.v, "message")
                errorMessages ==
                  IF d.ok /\ StatusOf(d.v) = <<"failed">> /\ ~m.nil
                  THEN ErrorMessages(m, ord) ELSE <<>>
                g == Unmarshal(resp.body, Error)
            IN IF Len(errorMessages) > 0
               THEN Fail(BankValidationError(resp.code, bo, errorMessages))
               ELSE IF g.ok /\ MessageOf(g.v) # <<>>
                    THEN Fail(APIError(resp.code, MessageOf(g.v)))
                    ELSE Fail(APIRequestFailed(resp.code, bo))
  ELSE IF ~resp.readOK THEN Fail(ReadError)
  ELSE LET d == Unmarshal(resp.body, BankPayoutResponse)
       IN IF ~d.ok THEN Fail(JsonError(resp.body))
          ELSE IF StatusOf(d.v) # <<"success">>
               THEN Fail(NewError(MessageOf(d.v)))
               ELSE Outcome(d.v, NoError)

\* a body status other than "success": what the details endpoint answers
BankPayoutDetailsSuccess_success == <<"success">>
\* transaction.go:635, the status GetBankPayoutDetails takes for success
BankPayoutDetailsSuccess == <<"successful">>

\* func (p *payChangu) GetBankPayoutDetails, after client.Do
GetBankPayoutDetails(resp) ==
  IF resp.code # StatusOK
  THEN IF ~resp.readOK THEN Fail(ReadError)
       ELSE LET d == Unmarshal(resp.body, Error)
            IN IF d.ok /\ MessageOf(d.v) # <<>>
               THEN Fail(APIError(resp.code, MessageOf(d.v)))
               ELSE Fail(APIRequestFailed(resp.code, Raw(resp.body)))
  ELSE LET d == Unmarshal(resp.body, GetBankPayoutDetailsResponse)
       IN IF ~resp.readOK \/ ~d.ok THEN Fail(DecoderError(resp))
          ELSE IF StatusOf(d.v) # BankPayoutDetailsSuccess
               THEN Fail(NewError(MessageOf(d.v)))
               ELSE Outcome(Field(d.v, "data"), NoError)

(***************************************************************************)
(* Requests: the part of each method before client.Do                      *)
(***************************************************************************)
\* the decimal digits of a natural number
RECURSIVE Digits(_)
Digits(n) == IF n < 10 THEN <<ToString(n)>> ELSE Digits(n \div 10) \o <<ToString(n % 10)>>

Abs(n) == IF n < 0 THEN -n ELSE n

\* faulty variant: three fractional digits
FormatF2_threeDigits(amount) ==
  (IF amount < 0 THEN <<"-">> ELSE <<>>)
    \o Digits(Abs(amount) \div 1000) \o <<".">>
    \o <<ToString((Abs(amount) \div 100) % 10), ToString((Abs(amount) \div 10) % 10),
         ToString(Abs(amount) % 10)>>
\* An amount is a fixed-point number, held as its count of thousandths.
\* fmt.Sprintf("%.2f", amount): sign, integer digits, '.', two digits, rounded
\* to the nearest hundredth (no amount of Amounts lies halfway).
FormatF2(amount) ==
  LET cents == (Abs(amount) + 5) \div 10
  IN (IF amount < 0 THEN <<"-">> ELSE <<>>)
       \o Digits(cents \div 100) \o <<".">>
       \o <<ToString((cents \div 10) % 10), ToString(cents % 10)>>

\* the digits of a fraction of thousandths, without trailing zeros
FractionDigits(th) ==
  IF th % 100 = 0 THEN <<ToString(th \div 100)>>
  ELSE IF th % 10 = 0 THEN <<ToString(th \div 100), ToString((th \div 10) % 10)>>
  ELSE <<ToString(th \div 100), ToString((th \div 10) % 10), ToString(th % 10)>>

\* encoding/json's text of a float amount: the shortest decimal that gives
\* the value back, with no fraction when the amount is whole
MarshalFloat(amount) ==
  (IF amount < 0 THEN <<"-">> ELSE <<>>)
    \o Digits(Abs(amount) \div 1000)
    \o (IF Abs(amount) % 1000 = 0 THEN <<>>
        ELSE <<".">> \o FractionDigits(Abs(amount) % 1000))

\* faulty variant: the member written whatever the string
OmitEmpty_always(name, s) == << <<name, JStr(s)>> >>
\* a struct member tagged omitempty: left out when the string is empty
OmitEmpty(name, s) == IF s = <<>> THEN <<>> ELSE << <<name, JStr(s)>> >>

NoBody == JNull
\* faulty variant: the Content-Type header never set
HttpRequest_noContentType(method, url, secretkey_, hasBody, body) ==
  [method |-> method, url |-> url,
   accept |-> <<"application/json">>,
   authorization |-> <<"Bearer ">> \o secretkey_,
   contentType |-> <<>>,
   hasBody |-> hasBody, body |-> body]
\* http.NewRequest(method, url, body) and the req.Header.Set calls
HttpRequest(method, url, secretkey_, hasBody, body) ==
  [method |-> method, url |-> url,
   accept |-> <<"application/json">>,
   authorization |-> <<"Bearer ">> \o secretkey_,
   contentType |-> IF hasBody THEN <<"application/json">> ELSE <<>>,
   hasBody |-> hasBody, body |-> body]

BaseURL == <<"https://api.paychangu.com">>

\* InitiatePayment: json.Marshal(request), POST /payment
InitiatePaymentReq(key, request) ==
  HttpRequest("POST", BaseURL \o <<"/payment">>, key, TRUE,
    JObj(<< <<"amount", JNum(MarshalFloat(request.amount))>>,
            <<"currency", JStr(request.currency)>>,
            <<"email", JStr(request.email)>>,
            <<"first_name", JStr(request.firstName)>>,
            <<"last_name", JStr(request.lastName)>>,
            <<"callback_url", JStr(request.callbackURL)>>,
            <<"return_url", JStr(request.returnURL)>>,
            <<"tx_ref", JStr(request.ref)>>,
            <<"customization", JObj(<< <<"title", JStr(request.title)>>,
                                       <<"description", JStr(request.description)>> >>)>>,
            <<"meta", JObj(<< <<"uuid", JStr(request.uuid)>>,
                              <<"response", JStr(request.response)>> >>)>> >>))

\* VerifyPayment: GET /verify-payment/%s
VerifyPaymentReq(key, request) ==
  HttpRequest("GET", BaseURL \o <<"/verify-payment/">> \o request.ref, key, FALSE, NoBody)

\* GetMobileMoneyOperators: GET /mobile-money
GetMobileMoneyOperatorsReq(key, request) ==
  HttpRequest("GET", BaseURL \o <<"/mobile-money">>, key, FALSE, NoBody)

\* faulty variant: the bank payout's formatting applied to this payload too
InitiateMobileMoneyPayoutReq_formatted(key, request) ==
  HttpRequest("POST", BaseURL \o <<"/mobile-money/payouts/initialize">>, key, TRUE,
    JObj(<< <<"mobile", JStr(request.mobile)>>,
            <<"mobile_money_operator_ref_id", JStr(request.operatorRefID)>>,
            <<"amount", JStr(FormatF2(request.amount))>>,
            <<"charge_id", JStr(request.ref)>> >>
         \o OmitEmpty("email", request.email)
         \o OmitEmpty("first_name", request.firstName)
         \o OmitEmpty("last_name", request.lastName)
         \o OmitEmpty("transaction_status", request.transactionStatus)))
\* InitiateMobileMoneyPayout: json.Marshal(request), POST
InitiateMobileMoneyPayoutReq(key, request) ==
  HttpRequest("POST", BaseURL \o <<"/mobile-money/payouts/initialize">>, key, TRUE,
    JObj(<< <<"mobile", JStr(request.mobile)>>,
            <<"mobile_money_operator_ref_id", JStr(request.operatorRefID)>>,
            <<"amount", JNum(MarshalFloat(request.amount))>>,
            <<"charge_id", JStr(request.ref)>> >>
         \o OmitEmpty("email", request.email)
         \o OmitEmpty("first_name", request.firstName)
         \o OmitEmpty("last_name", request.lastName)
         \o OmitEmpty("transaction_status", request.transactionStatus)))

\* faulty variant: a slash put between the charge id and "details"
GetMobileMoneyPayoutDetailsReq_slash(key, request) ==
  HttpRequest("GET", BaseURL \o <<"/mobile-money/payments/">> \o request.ref
                       \o <<"/details">>, key, FALSE, NoBody)
\* GetMobileMoneyPayoutDetails: GET /mobile-money/payments/%sdetails
GetMobileMoneyPayoutDetailsReq(key, request) ==
  HttpRequest("GET", BaseURL \o <<"/mobile-money/payments/">> \o request.ref
                       \o <<"details">>, key, FALSE, NoBody)

\* GetSupportedBanks: GET /direct-charge/payouts/supported-banks?currency=%s
GetSupportedBanksReq(key, request) ==
  HttpRequest("GET", BaseURL \o <<"/direct-charge/payouts/supported-banks?currency=">>
                       \o request.ref, key, FALSE, NoBody)

\* InitiateBankPayout: requestPayload with Amount: fmt.Sprintf("%.2f", ...), POST
InitiateBankPayoutReq(key, request) ==
  HttpRequest("POST", BaseURL \o <<"/direct-charge/payouts/initialize">>, key, TRUE,
    JObj(<< <<"payout_method", JStr(request.payoutMethod)>>,
            <<"bank_uuid", JStr(request.bankUUID)>>,
            <<"amount", JStr(FormatF2(request.amount))>>,
            <<"charge_id", JStr(request.ref)>>,
            <<"bank_account_name", JStr(request.bankAccountName)>>,
            <<"bank_account_number", JStr(request.bankAccountNumber)>> >>
         \o OmitEmpty("email", request.email)
         \o OmitEmpty("first_name", request.firstName)
         \o OmitEmpty("last_name", request.lastName)))

\* GetBankPayoutDetails: GET /direct-charge/payouts/%s/details
GetBankPayoutDetailsReq(key, request) ==
  HttpRequest("GET", BaseURL \o <<"/direct-charge/payouts/">> \o request.ref
                       \o <<"/details">>, key, FALSE, NoBody)

(***************************************************************************)
(* Inputs: credentials, arguments and the responses a server can send      *)
(***************************************************************************)
Ops == {"InitiatePayment", "VerifyPayment", "GetMobileMoneyOperators",
        "InitiateMobileMoneyPayout", "GetMobileMoneyPayoutDetails",
        "GetSupportedBanks", "InitiateBankPayout", "GetBankPayoutDetails"}

\* the secret key each client is built with; the last one is empty
Keys == << <<"sk_live_a">>, <<"sk_test_b">>, <<>> >>
Clients == 1..Len(Keys)

\* amounts in thousandths: 1234.5, 0, 0.1, 50000, 0.994, 1000.506, -2.5, -0.001
Amounts == {1234500, 0, 100, 50000000, 994, 1000506, -2500, -1}

\* the argument of a call; ref is the txRef, chargeID, charge_id or currency;
\* amountNaN: the amount is the float NaN (and the field amount is not used)
BaseArg ==
  [ref |-> <<"TX-1">>, amount |-> 1234500, amountNaN |-> FALSE, currency |-> <<"MWK">>,
   email |-> <<"john@example.com">>, firstName |-> <<"John">>, lastName |-> <<>>,
   callbackURL |-> <<"https://yourapp.com/success">>,
   returnURL |-> <<"https://yourapp.com/failure">>,
   title |-> <<"Order Payment">>, description |-> <<"Payment for electronics">>,
   uuid |-> <<"user-001">>, response |-> <<"tracking-data">>,
   mobile |-> <<"0881234567">>,
   operatorRefID |-> <<"27494cb5-ba9e-437f-a114-4e7a7686bcca">>,
   transactionStatus |-> <<>>,
   payoutMethod |-> <<"bank_transfer">>,
   bankUUID |-> <<"82310dd1-ec9b-4fe7-a32c-2f262ef08681">>,
   bankAccountName |-> <<"John Doe">>, bankAccountNumber |-> <<"1000000010">>]

\* a parameter with a control character in it
ControlChar == "\n"
BadRef == <<"TX", ControlChar, "1">>
\* the last one holds characters that have a meaning in a URL
Refs == {<<"TX-1">>, <<"PAYOUT-2">>, <<"PAY", "/", "3", "?", "x">>}

Args(op) ==
  CASE op = "InitiateBankPayout" ->
         {[BaseArg EXCEPT !.amount = a, !.email = e] :
            a \in Amounts, e \in {<<>>, <<"john@example.com">>}}
           \cup {[BaseArg EXCEPT !.email = <<>>, !.firstName = <<>>,
                                 !.lastName = <<"Doe">>]}
    [] op \in {"InitiatePayment", "InitiateMobileMoneyPayout"} ->
         {[BaseArg EXCEPT !.amount = a] : a \in {1234500, 100}}
           \cup {[BaseArg EXCEPT !.amountNaN = TRUE]}
    [] op = "GetSupportedBanks" ->
         {[BaseArg EXCEPT !.ref = r] : r \in {<<"MWK">>, <<"USD">>, BadRef}}
    [] op = "GetMobileMoneyOperators" -> {BaseArg}
    [] OTHER -> {[BaseArg EXCEPT !.ref = r] : r \in Refs \cup {BadRef}}

Time1 == <<"2024-05-01", "T", "10:00:00", "Z">>

\* the data member of each operation's success body
DocData(op) ==
  CASE op = "InitiatePayment" ->
         JObj(<< <<"event", JStr(<<"checkout.session:created">>)>>,
                 <<"checkout_url", JStr(<<"https://checkout.paychangu.com/123">>)>>,
                 <<"data", JObj(<< <<"tx_ref", JStr(<<"TX-1">>)>>,
                                   <<"currency", JStr(<<"MWK">>)>>,
                                   <<"amount", JNum(<<"10500">>)>>,
                                   <<"mode", JStr(<<"sandbox">>)>>,
                                   <<"status", JStr(<<"pending">>)>> >>)>> >>)
    [] op = "VerifyPayment" ->
         JObj(<< <<"event_type", JStr(<<"checkout.payment">>)>>,
                 <<"tx_ref", JStr(<<"TX-1">>)>>,
                 <<"status", JStr(<<"success">>)>>,
                 <<"number_of_attempts", JNum(<<"1">>)>>,
                 <<"amount", JNum(<<"1000">>)>>,
                 <<"charges", JNum(<<"40", ".", "5">>)>>,
                 <<"customization", JObj(<< <<"title", JStr(<<"Order Payment">>)>>,
                                            <<"logo", JNull>> >>)>>,
                 <<"meta", JNull>>,
                 <<"authorization", JObj(<< <<"channel", JStr(<<"Card">>)>> >>)>>,
                 <<"customer", JObj(<< <<"email", JStr(<<"john@example.com">>)>> >>)>>,
                 <<"logs", JArr(<< JObj(<< <<"type", JStr(<<"log">>)>>,
                                           <<"message", JStr(<<"Attempted">>)>>,
                                           <<"created_at", JStr(Time1)>> >>) >>)>>,
                 <<"created_at", JStr(Time1)>> >>)
    [] op = "GetMobileMoneyOperators" ->
         JArr(<< JObj(<< <<"id", JNum(<<"1">>)>>,
                         <<"name", JStr(<<"Airtel Money">>)>>,
                         <<"ref_id", JStr(<<"20be6c20">>)>>,
                         <<"logo", JNull>>,
                         <<"payout_fiat_fee", JStr(<<"1", ".", "7">>)>>,
                         <<"supports_withdrawals", JBool(<<"true">>)>>,
                         <<"supported_country",
                           JObj(<< <<"name", JStr(<<"Malawi">>)>>,
                                   <<"currency", JStr(<<"MWK">>)>> >>)>> >>),
                 JObj(<< <<"id", JNum(<<"2">>)>>,
                         <<"name", JStr(<<"TNM Mpamba">>)>>,
                         <<"ref_id", JStr(<<"27494cb5">>)>> >>) >>)
    [] op = "InitiateMobileMoneyPayout" ->
         JObj(<< <<"transaction",
                   JObj(<< <<"charge_id", JStr(<<"PAYOUT-2">>)>>,
                           <<"trans_id", JNull>>,
                           <<"amount", JNum(<<"5000">>)>>,
                           <<"email", JStr(<<"jane@example.com">>)>>,
                           <<"attempts", JNum(<<"0">>)>>,
                           <<"created_at", JStr(Time1)>>,
                           <<"mobile_money", JObj(<< <<"name", JStr(<<"TNM Mpamba">>)>> >>)>>,
                           <<"transaction_charges",
                             JObj(<< <<"currency", JStr(<<"MWK">>)>>,
                                     <<"amount", JStr(<<"1", ".", "7">>)>> >>)>> >>)>> >>)
    [] op = "GetMobileMoneyPayoutDetails" ->
         JObj(<< <<"charge_id", JStr(<<"PAYOUT-2">>)>>,
                 <<"trans_id", JStr(<<"T-9">>)>>,
                 <<"amount", JNum(<<"5000">>)>>,
                 <<"status", JStr(<<"successful">>)>>,
                 <<"completed_at", JStr(Time1)>>,
                 <<"customer", JNull>> >>)
    [] op = "GetSupportedBanks" ->
         JArr(<< JObj(<< <<"uuid", JStr(<<"82310dd1">>)>>,
                         <<"name", JStr(<<"National Bank of Malawi">>)>> >>),
                 JObj(<< <<"uuid", JStr(<<"87e62436">>)>>,
                         <<"name", JStr(<<"Ecobank">>)>> >>) >>)
    [] op = "InitiateBankPayout" ->
         JObj(<< <<"transaction",
                   JObj(<< <<"charge_id", JStr(<<"BANK-1">>)>>,
                           <<"amount", JNum(<<"50000">>)>>,
                           <<"mobile", JStr(<<"0">>)>>,
                           <<"completed_at", JNull>>,
                           <<"recipient_account_details",
                             JObj(<< <<"bank_name", JStr(<<"Ecobank">>)>>,
                                     <<"account_number", JStr(<<"1000000010">>)>> >>)>> >>)>> >>)
    [] op = "GetBankPayoutDetails" ->
         JObj(<< <<"charge_id", JStr(<<"BANK-1">>)>>,
                 <<"amount", JNum(<<"50000">>)>>,
                 <<"status", JStr(<<"pending">>)>>,
                 <<"completed_at", JStr(Time1)>>,
                 <<"recipient_account_details",
                   JObj(<< <<"bank_uuid", JStr(<<"87e62436">>)>>,
                           <<"bank_name", JStr(<<"Ecobank">>)>> >>)>> >>)

\* the literal each operation's success body carries in its status member
DocStatus(op) == IF op = "GetBankPayoutDetails" THEN <<"successful">> ELSE <<"success">>

\* {"status": st, "message": msg, "data": data}
Envelope(st, msg, data) ==
  JsonBody(JObj(<< <<"status", JStr(st)>>, <<"message", msg>>, <<"data", data>> >>))

\* the operation's documented success body
SuccessBody(op) == Envelope(DocStatus(op), JStr(<<"ok">>), DocData(op))

\* the validation failure of the payout endpoints: message maps a field to
\* its complaints
ValidationBody ==
  Envelope(<<"failed">>,
           JObj(<< <<"mobile", JArr(<< JStr(<<"is required">>) >>)>>,
                   <<"amount", JArr(<< JStr(<<"must be positive">>),
                                       JStr(<<"too large">>) >>)>> >>),
           JNull)

\* a validation failure one of whose complaints holds characters JSON escapes
QuotedValidationBody ==
  Envelope(<<"failed">>,
           JObj(<< <<"amount", JArr(<< JStr(<<"must be ", Quote, "positive", Quote>>) >>)>> >>),
           JNull)

ValidationBodies == {ValidationBody, QuotedValidationBody}

\* bodies any endpoint may answer with
CommonBodies ==
  { JsonBody(JObj(<< <<"status", JStr(<<"error">>)>>,
                     <<"message", JStr(<<"not found">>)>> >>)),
    JsonBody(JObj(<< <<"status", JStr(<<"failed">>)>>,
                     <<"message", JStr(<<"Insufficient balance">>)>> >>)),
    JsonBody(JObj(<< <<"status", JStr(<<"error">>)>>,
                     <<"message", JStr(<<"50", "%", "d", " off">>)>> >>)),
    JsonBody(JObj(<< <<"status", JStr(<<"error">>)>> >>)),
    JsonBody(JObj(<< <<"status", JStr(<<"failed">>)>>,
                     <<"message", JStr(<<>>)>> >>)),
    JsonBody(JObj(<< <<"status", JStr(<<"success">>)>>,
                     <<"message", JStr(<<"ok">>)>> >>)),
    Envelope(<<"failed">>, JObj(<<>>), JNull),
    Envelope(<<"error">>,
             JObj(<< <<"bank_uuid", JArr(<< JStr(<<"is invalid">>) >>)>> >>), JNull),
    Envelope(<<"success">>, JStr(<<"ok">>), JNull),
    TextBody(<<"<html>", "Bad Gateway", "</html>">>) }
    \cup ValidationBodies

Bodies(op) ==
  CommonBodies
    \cup { SuccessBody(op),
           Envelope(<<"success">>, JStr(<<"ok">>), DocData(op)),
           Envelope(<<"successful">>, JStr(<<"ok">>), DocData(op)),
           Envelope(<<"error">>, JStr(<<"declined">>), DocData(op)),
           Envelope(DocStatus(op), JStr(<<"ok">>), JStr(<<"none">>)) }

Codes == {200, 201, 400, 500}

\* a response: its status code, its body, and whether the body can be read
\* to the end
Response_(code, body, readOK) == [code |-> code, body |-> body, readOK |-> readOK]

Responses(op) ==
  {Response_(code, b, TRUE) : code \in Codes, b \in Bodies(op)}
    \cup {Response_(code, TextBody(<<>>), FALSE) : code \in Codes}

(***************************************************************************)
(* The clients and the calls made on them                                  *)
(***************************************************************************)
\* the goroutines that make calls
NumCalls == 2
Calls == 1..NumCalls
\* the goroutine of a program that makes its calls one after the other
Main == CHOOSE c \in Calls : \A d \in Calls : c <= d

VARIABLES
  secretkey,  \* secretkey[k]: the field of client k (type payChangu)
  pc,         \* pc[c]: where goroutine c is in its call
  call,       \* call[c]: the receiver, method and argument of the call
  req,        \* req[c]: the request handed to client.Do
  sent,       \* sent[c]: the HTTP requests the call has sent
  resp,       \* resp[c]: the response client.Do returned
  bodyOpen,   \* bodyOpen[c]: resp.Body is obtained and not closed
  result,     \* result[c]: the value the call returned
  err         \* err[c]: the error the call returned

vars == <<secretkey, pc, call, req, sent, resp, bodyOpen, result, err>>

\* faulty variant: the key kept in a package-level variable, which holds the
\* key of the client built last
New_packageLevel(secretKey) == [secretkey |-> Keys[Len(Keys)]]
\* faulty variant: the key stored with the header prefix
New_bearer(secretKey) == [secretkey |-> <<"Bearer ">> \o secretKey]
\* func New(secretKey string) *payChangu
New(secretKey) == [secretkey |-> secretKey]

NoCall == [client |-> 0, op |-> "none", arg |-> BaseArg]
NoRequest == HttpRequest("", <<>>, <<>>, FALSE, NoBody)
NoResponse == Response_(0, TextBody(<<>>), FALSE)

Init ==
  /\ secretkey = [k \in Clients |-> New(Keys[k]).secretkey]
  /\ pc = [c \in Calls |-> "idle"]
  /\ call = [c \in Calls |-> NoCall]
  /\ req = [c \in Calls |-> NoRequest]
  /\ sent = [c \in Calls |-> 0]
  /\ resp = [c \in Calls |-> NoResponse]
  /\ bodyOpen = [c \in Calls |-> FALSE]
  /\ result = [c \in Calls |-> NilResult]
  /\ err = [c \in Calls |-> NoError]

\* the request a method builds from the receiver's key and its argument
BuildRequest(op, key, arg) ==
  CASE op = "InitiatePayment" -> InitiatePaymentReq(key, arg)
    [] op = "VerifyPayment" -> VerifyPaymentReq(key, arg)
    [] op = "GetMobileMoneyOperators" -> GetMobileMoneyOperatorsReq(key, arg)
    [] op = "InitiateMobileMoneyPayout" -> InitiateMobileMoneyPayoutReq(key, arg)
    [] op = "GetMobileMoneyPayoutDetails" -> GetMobileMoneyPayoutDetailsReq(key, arg)
    [] op = "GetSupportedBanks" -> GetSupportedBanksReq(key, arg)
    [] op = "InitiateBankPayout" -> InitiateBankPayoutReq(key, arg)
    [] op = "GetBankPayoutDetails" -> GetBankPayoutDetailsReq(key, arg)

\* the type of the variable each method decodes its success body into
ResponseType(op) ==
  CASE op = "InitiatePayment" -> Response
    [] op = "VerifyPayment" -> VerifyPaymentResponse
    [] op = "GetMobileMoneyOperators" -> MobileMoneyOperatorsResponse
    [] op = "InitiateMobileMoneyPayout" -> MobileMoneyPayoutResponse
    [] op = "GetMobileMoneyPayoutDetails" -> GetMobileMoneyPayoutDetailsResponse
    [] op = "GetSupportedBanks" -> BanksResponse
    [] op = "InitiateBankPayout" -> BankPayoutResponse
    [] op = "GetBankPayoutDetails" -> GetBankPayoutDetailsResponse

\* what a method returns for the response it got
HandleResponse(op, r, ord) ==
  CASE op = "InitiatePayment" -> InitiatePayment(r)
    [] op = "VerifyPayment" -> VerifyPayment(r)
    [] op = "GetMobileMoneyOperators" -> GetMobileMoneyOperators(r)
    [] op = "InitiateMobileMoneyPayout" -> InitiateMobileMoneyPayout(r, ord)
    [] op = "GetMobileMoneyPayoutDetails" -> GetMobileMoneyPayoutDetails(r)
    [] op = "GetSupportedBanks" -> GetSupportedBanks(r)
    [] op = "InitiateBankPayout" -> InitiateBankPayout(r, ord)
    [] op = "GetBankPayoutDetails" -> GetBankPayoutDetails(r)

\* the *url.Error client.Do returns when the request cannot be sent
DoError(r) ==
  TypedError("*url.Error",
             <<(IF r.method = "POST" THEN "Post" ELSE "Get"), " ", Quote>>
               \o r.url \o <<Quote, ": ", "connection refused">>)

\* what a method returns when client.Do fails
SendError(op, r) ==
  IF op \in {"GetMobileMoneyOperators", "InitiateBankPayout", "GetBankPayoutDetails"}
  THEN Wrap("failed to send request", DoError(r))
  ELSE DoError(r)

\* faulty variant: no deferred Close
DeferredClose_missing(c) == bodyOpen
\* defer resp.Body.Close(), run when the method returns
DeferredClose(c) == [bodyOpen EXCEPT ![c] = FALSE]

\* json.Marshal(request) fails: encoding/json does not encode NaN.  (The
\* payload of InitiateBankPayout holds the amount as a string.)
MarshalFails(op, arg) ==
  op \in {"InitiatePayment", "InitiateMobileMoneyPayout"} /\ arg.amountNaN
\* http.NewRequest fails: net/url does not parse a URL with a control
\* character in it
NewRequestFails(op, arg) == ControlChar \in Tokens(BuildRequest(op, <<>>, arg).url)
BuildFails(op, arg) == MarshalFails(op, arg) \/ NewRequestFails(op, arg)
\* the error the method returns when it cannot build its request
BuildFailure(op, arg) ==
  IF MarshalFails(op, arg)
  THEN TypedError("*json.UnsupportedValueError", <<"json: unsupported value: ", "NaN">>)
  ELSE LET e == TypedError("*url.Error",
                   <<"parse ", Quote>> \o BuildRequest(op, <<>>, arg).url
                     \o <<Quote, ": ", "net/url: invalid control character in URL">>)
       IN IF op \in {"GetMobileMoneyOperators", "InitiateBankPayout"}
          THEN Wrap("failed to create request", e)
          ELSE e

\* faulty variant: the method stores the header value it built in the
\* receiver's field
Invoke_rewritesKey(c, k, op, arg) ==
  /\ pc[c] = "idle"
  /\ ~BuildFails(op, arg)
  /\ pc' = [pc EXCEPT ![c] = "sent"]
  /\ call' = [call EXCEPT ![c] = [client |-> k, op |-> op, arg |-> arg]]
  /\ req' = [req EXCEPT ![c] = BuildRequest(op, secretkey[k], arg)]
  /\ sent' = [sent EXCEPT ![c] = @ + 1]
  /\ secretkey' = [secretkey EXCEPT ![k] = BuildRequest(op, secretkey[k], arg).authorization]
  /\ UNCHANGED <<resp, bodyOpen, result, err>>
\* Goroutine c calls method op of client k with argument arg: the method
\* builds the request and hands it to client.Do, which sends it.
Invoke(c, k, op, arg) ==
  /\ pc[c] = "idle"
  /\ ~BuildFails(op, arg)
  /\ pc' = [pc EXCEPT ![c] = "sent"]
  /\ call' = [call EXCEPT ![c] = [client |-> k, op |-> op, arg |-> arg]]
  /\ req' = [req EXCEPT ![c] = BuildRequest(op, secretkey[k], arg)]
  /\ sent' = [sent EXCEPT ![c] = @ + 1]
  /\ UNCHANGED <<secretkey, resp, bodyOpen, result, err>>

\* Goroutine c calls method op of client k with an argument the request
\* cannot be built from: the method returns the error; nothing is sent.
BuildError(c, k, op, arg) ==
  /\ pc[c] = "idle"
  /\ BuildFails(op, arg)
  /\ pc' = [pc EXCEPT ![c] = "done"]
  /\ call' = [call EXCEPT ![c] = [client |-> k, op |-> op, arg |-> arg]]
  /\ result' = [result EXCEPT ![c] = Fail(BuildFailure(op, arg)).result]
  /\ err' = [err EXCEPT ![c] = Fail(BuildFailure(op, arg)).err]
  /\ UNCHANGED <<secretkey, req, sent, resp, bodyOpen>>

\* faulty variant: the request sent again (up to three times) when client.Do
\* returns an error
TransportError_retry(c) ==
  /\ pc[c] = "sent"
  /\ IF sent[c] < 3
     THEN /\ sent' = [sent EXCEPT ![c] = @ + 1]
          /\ UNCHANGED <<pc, result, err>>
     ELSE /\ pc' = [pc EXCEPT ![c] = "done"]
          /\ result' = [result EXCEPT ![c] = NilResult]
          /\ err' = [err EXCEPT ![c] = SendError(call[c].op, req[c])]
          /\ UNCHANGED sent
  /\ UNCHANGED <<secretkey, call, req, resp, bodyOpen>>
\* client.Do returns an error: the method returns it (no response, no body).
TransportError(c) ==
  /\ pc[c] = "sent"
  /\ pc' = [pc EXCEPT ![c] = "done"]
  /\ result' = [result EXCEPT ![c] = NilResult]
  /\ err' = [err EXCEPT ![c] = SendError(call[c].op, req[c])]
  /\ UNCHANGED <<secretkey, call, req, sent, resp, bodyOpen>>

\* client.Do returns response r; its body is open from here on.
Respond(c, r) ==
  /\ pc[c] = "sent"
  /\ pc' = [pc EXCEPT ![c] = "responded"]
  /\ resp' = [resp EXCEPT ![c] = r]
  /\ bodyOpen' = [bodyOpen EXCEPT ![c] = TRUE]
  /\ UNCHANGED <<secretkey, call, req, sent, result, err>>

\* faulty variant: the response kept in one variable all calls share, which
\* holds the response that came in last among the calls in progress
ResponseOf_shared(c) ==
  IF \E d \in Calls \ {c} : pc[d] = "responded"
  THEN resp[CHOOSE d \in Calls \ {c} : pc[d] = "responded"]
  ELSE resp[c]
\* the local variable resp of goroutine c's call
ResponseOf(c) == resp[c]

\* faulty variant: on a status other than 200 the method waits for more of
\* the body and does not return
Return_waits(c) ==
  /\ pc[c] = "responded"
  /\ ResponseOf(c).code = StatusOK
  /\ \E ord \in MapOrders(MessageKeys(ResponseOf(c).body)) :
       LET out == HandleResponse(call[c].op, ResponseOf(c), ord)
       IN /\ result' = [result EXCEPT ![c] = out.result]
          /\ err' = [err EXCEPT ![c] = out.err]
  /\ bodyOpen' = DeferredClose(c)
  /\ pc' = [pc EXCEPT ![c] = "done"]
  /\ UNCHANGED <<secretkey, call, req, sent, resp>>
\* The method reads and classifies the response and returns; the deferred
\* Close runs.  The order of a range over a map is any order.
Return(c) ==
  /\ pc[c] = "responded"
  /\ \E ord \in MapOrders(MessageKeys(ResponseOf(c).body)) :
       LET out == HandleResponse(call[c].op, ResponseOf(c), ord)
       IN /\ result' = [result EXCEPT ![c] = out.result]
          /\ err' = [err EXCEPT ![c] = out.err]
  /\ bodyOpen' = DeferredClose(c)
  /\ pc' = [pc EXCEPT ![c] = "done"]
  /\ UNCHANGED <<secretkey, call, req, sent, resp>>

\* The caller is done with what the call returned; the goroutine is free
\* for its next call.
Finish(c) ==
  /\ pc[c] = "done"
  /\ pc' = [pc EXCEPT ![c] = "idle"]
  /\ call' = [call EXCEPT ![c] = NoCall]
  /\ req' = [req EXCEPT ![c] = NoRequest]
  /\ sent' = [sent EXCEPT ![c] = 0]
  /\ resp' = [resp EXCEPT ![c] = NoResponse]
  /\ result' = [result EXCEPT ![c] = NilResult]
  /\ err' = [err EXCEPT ![c] = NoError]
  /\ UNCHANGED <<secretkey, bodyOpen>>

\* A program that makes its calls one after the other, on any client, with
\* any argument, against a server that may answer anything.
Next ==
  \/ \E k \in Clients, op \in Ops : \E arg \in Args(op) : Invoke(Main, k, op, arg)
  \/ \E k \in Clients, op \in Ops : \E arg \in Args(op) : BuildError(Main, k, op, arg)
  \/ TransportError(Main)
  \/ (pc[Main] = "sent" /\ \E r \in Responses(call[Main].op) : Respond(Main, r))
  \/ Return(Main)
  \/ Finish(Main)

Spec == Init /\ [][Next]_vars

\* Goroutines sharing the clients, their steps interleaved.
ConcOps == {"GetMobileMoneyOperators", "InitiateMobileMoneyPayout"}
ConcClients == {1, 2}
ConcResponses(op) ==
  { Response_(200, SuccessBody(op), TRUE),
    Response_(200, JsonBody(JObj(<< <<"status", JStr(<<"error">>)>>,
                                    <<"message", JStr(<<"not found">>)>> >>)), TRUE),
    Response_(400, ValidationBody, TRUE),
    Response_(500, TextBody(<<"<html>", "Bad Gateway", "</html>">>), TRUE) }

NextConc ==
  \E c \in Calls :
    \/ \E k \in ConcClients, op \in ConcOps : Invoke(c, k, op, BaseArg)
    \/ TransportError(c)
    \/ (pc[c] = "sent" /\ \E r \in ConcResponses(call[c].op) : Respond(c, r))
    \/ Return(c)
    \/ Finish(c)

SpecConc == Init /\ [][NextConc]_vars

\* The program under a transport that does answer: every operation, called
\* with well-formed arguments, and a transport that fails or delivers one of
\* a few responses, one of them with a body that breaks off.
LiveResponses(op) ==
  ConcResponses(op) \cup {Response_(500, TextBody(<<>>), FALSE)}
\* what the transport does with a request it was handed
Transport(c) ==
  \/ TransportError(c)
  \/ (pc[c] = "sent" /\ \E r \in LiveResponses(call[c].op) : Respond(c, r))

NextLive ==
  \/ \E k \in Clients, op \in Ops : Invoke(Main, k, op, BaseArg)
  \/ Transport(Main)
  \/ Return(Main)
  \/ Finish(Main)

\* client.Do returns once the transport has answered, and the method runs on
\* once client.Do has returned.
SpecLive ==
  Init /\ [][NextLive]_vars /\ WF_vars(Transport(Main)) /\ WF_vars(Return(Main))


TypeOK ==
  /\ pc \in [Calls -> {"idle", "sent", "responded", "done"}]
  /\ \A c \in Calls : sent[c] \in 0..1
  /\ \A c \in Calls : bodyOpen[c] \in BOOLEAN

(***************************************************************************)
(* Properties                                                              *)
(***************************************************************************)
Done(c) == pc[c] = "done"
\* the call got a response (client.Do did not fail)
HasResponse(c) == resp[c].code # 0
\* the call got a response and its body could be read to the end
GotBody(c) == Done(c) /\ HasResponse(c) /\ resp[c].readOK
\* the call returned a failure: no result and an error
Failed(c) == result[c].nil /\ ~err[c].nil
\* the status code the per-operation table gives for success
ExpectedCode(op) == IF op = "InitiatePayment" THEN 201 ELSE 200
\* the body decodes into the operation's response shape
Decodes(op, b) == Unmarshal(b, ResponseType(op)).ok
\* the status and message members of a JSON body, as the server wrote them
BodyStatus(b) ==
  IF b.json /\ b.node.t = "obj" /\ HasKey(b.node, "status")
  THEN GetKey(b.node, "status").s ELSE <<>>
BodyMessage(b) ==
  IF b.json /\ b.node.t = "obj" /\ HasKey(b.node, "message")
  THEN GetKey(b.node, "message").s ELSE <<>>
CarriesCode(c) == Contains(err[c].text, FmtD(resp[c].code))

C2_BankDetailsLiteral ==
  \A c \in Calls :
    (GotBody(c) /\ call[c].op = "GetBankPayoutDetails" /\ resp[c].code = 200)
      => /\ BodyStatus(resp[c].body) = <<"success">> => Failed(c)
         /\ (err[c].nil \/ ~result[c].nil)
              => BodyStatus(resp[c].body) = <<"successful">>
         /\ (Decodes(call[c].op, resp[c].body)
               /\ BodyStatus(resp[c].body) = <<"successful">>)
              => (err[c].nil /\ ~result[c].nil)

C2_Witness ==
  \E c \in Calls :
    /\ GotBody(c) /\ call[c].op = "GetBankPayoutDetails" /\ resp[c].code = 200
    /\ resp[c].body = Envelope(<<"success">>, JStr(<<"ok">>), DocData("GetBankPayoutDetails"))
    /\ Failed(c)

\* C3: for every operation but InitiatePayment, an HTTP 200 response whose
\* decoded body status is not the operation's success literal makes the call
\* fail with an error whose text contains the body's message; HTTP 200 alone
\* never gives a success.
C3_BusinessFailure ==
  \A c \in Calls :
    (GotBody(c) /\ call[c].op # "InitiatePayment" /\ resp[c].code = 200)
      => /\ (Decodes(call[c].op, resp[c].body)
               /\ BodyStatus(resp[c].body) # DocStatus(call[c].op))
              => (Failed(c) /\ Contains(err[c].text, BodyMessage(resp[c].body)))
         /\ err[c].nil => BodyStatus(resp[c].body) = DocStatus(call[c].op)

C3_Witness ==
  \E c \in Calls :
    /\ GotBody(c) /\ call[c].op = "VerifyPayment" /\ resp[c].code = 200
    /\ BodyStatus(resp[c].body) = <<"error">>
    /\ BodyMessage(resp[c].body) = <<"not found">>
    /\ Failed(c) /\ err[c].text = <<"not found">>

\* the complaints and the field names of a validation body's message
Complaints(b) ==
  LET m == GetKey(b.node, "message")
  IN UNION {{m.kids[i][2].kids[j][2].s : j \in 1..Len(m.kids[i][2].kids)} :
              i \in 1..Len(m.kids)}
FieldNames(b) ==
  LET m == GetKey(b.node, "message") IN {m.kids[i][1] : i \in 1..Len(m.kids)}

PayoutOps == {"InitiateMobileMoneyPayout", "InitiateBankPayout"}

RECURSIVE DigitsValue(_)
DigitsValue(ds) ==
  IF ds = <<>> THEN 0
  ELSE 10 * DigitsValue(SubSeq(ds, 1, Len(ds) - 1))
         + (CHOOSE d \in 0..9 : ToString(d) = ds[Len(ds)])
DigitTokens == {ToString(d) : d \in 0..9}
\* plain decimal notation with exactly two fractional digits
TwoDecimals(s) ==
  LET u == IF s # <<>> /\ s[1] = "-" THEN Tail(s) ELSE s
  IN /\ Len(u) >= 4
     /\ u[Len(u) - 2] = "."
     /\ \A i \in 1..Len(u) : i # Len(u) - 2 => u[i] \in DigitTokens
\* the hundredths a two-decimal text spells
Hundredths(s) ==
  LET u == IF s[1] = "-" THEN Tail(s) ELSE s
      v == 100 * DigitsValue(SubSeq(u, 1, Len(u) - 3))
             + DigitsValue(SubSeq(u, Len(u) - 1, Len(u)))
  IN IF s[1] = "-" THEN -v ELSE v
WireAmount(c) == GetKey(req[c].body, "amount")

\* C5: InitiateBankPayout puts the amount on the wire as a JSON string in
\* plain decimal notation with exactly two fractional digits, the request's
\* amount rounded to the hundredth (1234.5 goes as "1234.50"); never as a
\* JSON number.
C5_BankAmountTwoDecimals ==
  \A c \in Calls :
    (pc[c] # "idle" /\ call[c].op = "InitiateBankPayout")
      => /\ req[c].hasBody
         /\ WireAmount(c).t = "str"
         /\ TwoDecimals(WireAmount(c).s)
         /\ Abs(10 * Hundredths(WireAmount(c).s) - call[c].arg.amount) <= 5
         /\ call[c].arg.amount = 1234500
              => WireAmount(c).s = <<"1", "2", "3", "4", ".", "5", "0">>

C5_Witness ==
  \E c \in Calls :
    /\ pc[c] = "sent" /\ call[c].op = "InitiateBankPayout"
    /\ call[c].arg.amount = 1234500
    /\ Render(WireAmount(c)) = <<Quote, "1", "2", "3", "4", ".", "5", "0", Quote>>

RECURSIVE Populated(_, _)
Populated(n, v) ==
  IF n.t = "null" THEN v.nil \/ (v.k = "string" /\ v.s = <<>>)
  ELSE IF v.nil THEN FALSE
  ELSE IF v.k = "ptr" THEN Populated(n, v.kids[1][2])
  ELSE IF v.k = "interface" THEN v.s = Render(n)
  ELSE CASE n.t = "str" -> v.k \in {"string", "time"} /\ v.s = n.s
         [] n.t = "num" -> v.k \in {"float64", "int"} /\ v.s = n.s
         [] n.t = "bool" -> v.k = "bool" /\ v.s = n.s
         [] n.t = "arr" ->
              /\ v.k = "slice"
              /\ Len(v.kids) = Len(n.kids)
              /\ \A i \in 1..Len(n.kids) : Populated(n.kids[i][2], v.kids[i][2])
         [] n.t = "obj" ->
              /\ v.k = "struct"
              /\ \A i \in 1..Len(n.kids) :
                   /\ HasField(v, n.kids[i][1])
                   /\ Populated(n.kids[i][2], Field(v, n.kids[i][1]))

\* the call got the operation's documented success status and success body
GotSuccess(c) ==
  /\ GotBody(c)
  /\ resp[c].code = ExpectedCode(call[c].op)
  /\ resp[c].body = SuccessBody(call[c].op)

\* the operations whose result is the whole decoded response
WholeResponseOps ==
  {"InitiatePayment", "VerifyPayment", "InitiateMobileMoneyPayout", "InitiateBankPayout"}

\* C7 (as stated): for all eight operations, the documented success status
\* and body give a nil error and a result that holds every member of the
\* body, the top-level status and message included, with the body's value.
C7_ResultHoldsWholeBody ==
  \A c \in Calls :
    GotSuccess(c) => (err[c].nil /\ Populated(resp[c].body.node, result[c]))

\* C7 (amended): for all eight operations, the documented success status and
\* body give a nil error; the result of InitiatePayment, VerifyPayment,
\* InitiateMobileMoneyPayout and InitiateBankPayout holds every member of the
\* body, status and message included; the result of the four other
\* operations is the decoded data member alone and holds every member of the
\* body's data.
C7_RoundTrip ==
  \A c \in Calls :
    GotSuccess(c)
      => /\ err[c].nil
         /\ call[c].op \in WholeResponseOps
              => Populated(resp[c].body.node, result[c])
         /\ call[c].op \notin WholeResponseOps
              => Populated(GetKey(resp[c].body.node, "data"), result[c])

C7_Witness ==
  \E c \in Calls :
    /\ GotSuccess(c) /\ call[c].op = "GetSupportedBanks"
    /\ err[c].nil /\ Len(result[c].kids) = 2
    /\ Field(result[c].kids[1][2], "uuid").s = <<"82310dd1">>
    /\ Field(result[c].kids[2][2], "name").s = <<"Ecobank">>

\* C8: the client holds no call-to-call state: whatever calls came before,
\* two calls of the same operation on the same client with the same argument
\* that get identical responses (or both no response) return equal results
\* and equal errors.
C8_SameCallSameOutcome ==
  \A c, d \in Calls :
    (Done(c) /\ Done(d) /\ call[c] = call[d] /\ resp[c] = resp[d])
      => (result[c] = result[d] /\ err[c] = err[d])

C8_Witness ==
  \E c, d \in Calls :
    /\ c # d /\ Done(c) /\ Done(d)
    /\ call[c] = call[d] /\ call[c].op = "GetMobileMoneyOperators"
    /\ resp[c] = resp[d] /\ resp[c].code = 200
    /\ err[c].nil /\ result[c] = result[d] /\ Len(result[c].kids) = 2

\* the texts a Go value holds
RECURSIVE ValueTokens(_)
ValueTokens(v) ==
  Tokens(v.s) \cup UNION {ValueTokens(v.kids[i][2]) : i \in 1..Len(v.kids)}
\* the texts a document holds as the values of its strings, numbers and booleans
RECURSIVE NodeTokens(_)
NodeTokens(n) ==
  Tokens(n.s) \cup UNION {NodeTokens(n.kids[i][2]) : i \in 1..Len(n.kids)}
\* the data a response carries
ResponseData(r) == IF r.body.json THEN NodeTokens(r.body.node) ELSE Tokens(r.body.text)
\* the data a call returned, in its result or in its error
ReturnedData(c) == ValueTokens(result[c]) \cup Tokens(err[c].text)
\* the texts of the zero values, which come from no response
ZeroData == {"0", "false"} \cup Tokens(ZeroTime)

\* C9: with several calls in progress on shared clients, under every
\* interleaving, what a call returns holds no data of another call's
\* response: any piece of a response found in a call's result or error is in
\* that call's own response (or in its own request, or is a zero value).
C9_NoCrossContamination ==
  \A c, d \in Calls :
    (c # d /\ Done(c))
      => (ReturnedData(c) \cap ResponseData(resp[d]))
            \subseteq (ResponseData(resp[c]) \cup Tokens(req[c].url) \cup ZeroData)

C9_Witness ==
  \E c, d \in Calls :
    /\ c # d /\ Done(c) /\ pc[d] \in {"responded", "done"}
    /\ call[c].client = call[d].client
    /\ HasResponse(c) /\ HasResponse(d) /\ resp[c] # resp[d]
    /\ "not found" \in ReturnedData(c)
    /\ "not found" \notin ResponseData(resp[d])
    /\ "Airtel Money" \in ResponseData(resp[d])

\* C10: once a response has been obtained, its body is closed on every exit
\* path; no call has returned with its response body still open.
C10_BodyClosedOnReturn ==
  \A c \in Calls : pc[c] \in {"done", "idle"} => ~bodyOpen[c]

\* a response was obtained and the call returned on the decode-failure path
C10_Witness ==
  \E c \in Calls :
    /\ GotBody(c) /\ resp[c].code = ExpectedCode(call[c].op)
    /\ ~Decodes(call[c].op, resp[c].body)
    /\ Failed(c) /\ ~bodyOpen[c]

\* the call got the validation failure body of a payout endpoint, with a
\* status other than 200, and failed
ValidationFailure(c) ==
  /\ GotBody(c) /\ call[c].op \in PayoutOps /\ resp[c].code # StatusOK
  /\ resp[c].body \in ValidationBodies /\ Failed(c)

\* C11: when InitiateMobileMoneyPayout fails with validation errors, the
\* error it returns has the dynamic type *MobileMoneyPayoutErrorResponse, so
\* that the caller's type assertion succeeds and gives the value whose
\* Message field holds the mapping from fields to complaints.
C11_ValidationErrorType ==
  \A c \in Calls :
    (ValidationFailure(c) /\ call[c].op = "InitiateMobileMoneyPayout")
      => err[c].type = "*MobileMoneyPayoutErrorResponse"

\* the class, in the error taxonomy, of what a call of op returns when
\* client.Do gives response r (NoResponse: client.Do failed)
ErrorClass(op, r) ==
  IF r.code = 0 \/ ~r.readOK THEN "transport"
  ELSE IF r.code # ExpectedCode(op)
       THEN IF op \in PayoutOps /\ r.body \in ValidationBodies
            THEN "validation" ELSE "status"
  ELSE IF ~Decodes(op, r.body) THEN "serialization"
  ELSE IF op # "InitiatePayment" /\ BodyStatus(r.body) # DocStatus(op)
       THEN "business"
  ELSE "success"

\* C12: failures of different classes never give equal error values: the
\* error a failed call returned differs (in type or in text) from the error
\* the same operation returns for any response of another class; so a
\* non-200 failure with decoded message M differs from the HTTP 200 business
\* failure with body message M.
C12_DistinctErrorClasses ==
  \A c \in Calls :
    (Done(c) /\ Failed(c))
      => \A r \in Responses(call[c].op) :
           ErrorClass(call[c].op, r) \notin {"success", ErrorClass(call[c].op, resp[c])}
             => \A ord \in MapOrders(MessageKeys(r.body)) :
                  HandleResponse(call[c].op, r, ord).err # err[c]

\* the remote message(s) a response body carries: the message string of a
\* JSON body, the field names and complaints of a message that is a mapping,
\* the whole text of a body that is not JSON
RemoteMessages(b) ==
  IF ~b.json THEN {b.text} \ {<<>>}
  ELSE IF MessageKeys(b) > 0 THEN Complaints(b) \cup {<<f>> : f \in FieldNames(b)}
  ELSE {BodyMessage(b)} \ {<<>>}

\* the text holds message m unaltered: as the decoded string, or as the body
\* spells it
Keeps(text, m) == Contains(text, m) \/ Contains(text, JsonEscape(m))

\* C13: whenever a call fails after receiving a response whose body carries
\* a remote message, the error returned contains the text of that message
\* unaltered, for every operation, status code and body shape.
C13_RemoteMessageKept ==
  \A c \in Calls :
    (GotBody(c) /\ Failed(c))
      => \A m \in RemoteMessages(resp[c].body) : Keeps(err[c].text, m)

\* the body decodes as the generic {status, message} error with a message
DecodableGeneric(b) == Unmarshal(b, Error).ok /\ BodyMessage(b) # <<>>
\* the call got a response with another status than the expected one and
\* read its body to the end
StatusMismatch(c) == GotBody(c) /\ resp[c].code # ExpectedCode(call[c].op)

BodiedOps == {"InitiatePayment", "InitiateMobileMoneyPayout", "InitiateBankPayout"}
\* the call has handed its request to client.Do
RequestSent(c) == pc[c] # "idle" /\ sent[c] > 0

\* C15: every request sent carries Accept: application/json and
\* Authorization: Bearer k, k being the string given to New for the client
\* the call is made on; the three operations with a payload also carry
\* Content-Type: application/json and a body, and the five lookups are GET
\* requests without a body.
C15_RequestHeaders ==
  \A c \in Calls :
    RequestSent(c)
      => /\ req[c].accept = <<"application/json">>
         /\ req[c].authorization = <<"Bearer ">> \o Keys[call[c].client]
         /\ call[c].op \in BodiedOps
              => /\ req[c].contentType = <<"application/json">>
                 /\ req[c].hasBody /\ req[c].body.t = "obj"
         /\ call[c].op \notin BodiedOps
              => (req[c].method = "GET" /\ ~req[c].hasBody /\ req[c].body = NoBody)

C15_Witness ==
  \E c \in Calls :
    /\ pc[c] = "sent" /\ sent[c] = 1
    /\ call[c].op = "InitiateBankPayout" /\ call[c].client = 2
    /\ req[c].authorization = <<"Bearer ", "sk_test_b">>
    /\ req[c].contentType = <<"application/json">>
    /\ req[c].method = "POST" /\ req[c].hasBody

\* the call returned the error of client.Do
TransportFailed(c) ==
  Done(c) /\ ~HasResponse(c) /\ err[c] = SendError(call[c].op, req[c])

\* C16: a call sends at most one HTTP request: in every state, and so when
\* it has returned after a transport failure, a non-matching status or a
\* business failure, the call has sent one request and no second one.
C16_AtMostOneRequest ==
  \A c \in Calls :
    /\ sent[c] <= 1
    /\ (Failed(c) /\ (TransportFailed(c) \/ (Done(c) /\ HasResponse(c))))
         => sent[c] = 1

\* a call that failed in transport, and was not sent again
C16_Witness ==
  \E c \in Calls :
    /\ TransportFailed(c) /\ Failed(c)
    /\ err[c].type = "*url.Error"
    /\ sent[c] = 1

\* C17: the credential of a client is immutable: a client that stores the
\* key k given to New still stores k after any step of any call, successful
\* or failed.
C17_CredentialImmutable ==
  [][\A k \in Clients : secretkey[k] = Keys[k] => secretkey'[k] = Keys[k]]_vars

\* a call on the client has failed and the client's key is as built
C17_Witness ==
  \E c \in Calls :
    /\ Done(c) /\ Failed(c) /\ HasResponse(c)
    /\ call[c].client = 1 /\ secretkey[1] = <<"sk_live_a">>

\* C18: New(k) stores k verbatim, the empty string included, and gives a
\* client and no error; while no operation is called no request is sent and
\* no error exists.
C18_NewStoresKey ==
  /\ \A k \in Clients :
       secretkey[k] = Keys[k] /\ DOMAIN New(Keys[k]) = {"secretkey"}
  /\ \A c \in Calls : pc[c] = "idle" => (sent[c] = 0 /\ err[c].nil)

\* the client built with the empty key: the call goes out and the failure
\* comes back from the server
C18_Witness ==
  \E c \in Calls, k \in Clients :
    /\ Keys[k] = <<>> /\ secretkey[k] = <<>>
    /\ Done(c) /\ call[c].client = k
    /\ req[c].authorization = <<"Bearer ">>
    /\ HasResponse(c) /\ resp[c].code = 400 /\ Failed(c)

\* the texts a request carries: its URL, its headers and its payload
RequestData(r) ==
  Tokens(r.url) \cup Tokens(r.accept) \cup Tokens(r.authorization)
    \cup Tokens(r.contentType) \cup NodeTokens(r.body)

\* C19: clients built with different credentials do not interfere: under
\* any interleaving of calls, a request sent through client A carries A's
\* credential in its Authorization header and holds no other client's
\* credential anywhere.
C19_NoCredentialMixup ==
  \A c \in Calls :
    RequestSent(c)
      => LET a == call[c].client
         IN /\ req[c].authorization = <<"Bearer ">> \o secretkey[a]
            /\ secretkey[a] = Keys[a]
            /\ \A b \in Clients \ {a} : Tokens(Keys[b]) \cap RequestData(req[c]) = {}

\* two calls in flight at once on clients with different credentials
C19_Witness ==
  \E c, d \in Calls :
    /\ c # d /\ pc[c] = "sent" /\ pc[d] \in {"sent", "responded"}
    /\ call[c].client = 1 /\ call[d].client = 2
    /\ req[c].authorization = <<"Bearer ", "sk_live_a">>
    /\ req[d].authorization = <<"Bearer ", "sk_test_b">>

\* C20: the validation error of the two payout operations is one message
\* whose text does not depend on the order in which the map of complaints is
\* visited: for the failure body a call received, every order of the range
\* over the map gives the error the call returned, so two calls that receive
\* the same body return identical messages.
C20_ValidationMessageDeterministic ==
  \A c \in Calls :
    ValidationFailure(c)
      => \A ord \in MapOrders(MessageKeys(resp[c].body)) :
           HandleResponse(call[c].op, resp[c], ord).err = err[c]

\* a validation failure whose mapping has two fields, so two orders
C20_Witness ==
  \E c \in Calls :
    /\ ValidationFailure(c) /\ call[c].op = "InitiateBankPayout"
    /\ resp[c].body = ValidationBody /\ MessageKeys(resp[c].body) = 2
    /\ Contains(err[c].text, <<"validation failed">>)

\* the operations whose success literal is "success"
SuccessLiteralOps == Ops \ {"InitiatePayment", "GetBankPayoutDetails"}

\* C21: for the six operations other than InitiatePayment and
\* GetBankPayoutDetails, an HTTP 200 response whose body status is
\* "successful" is a failure; a call succeeds only when the body status is
\* "success", and does succeed when such a body decodes.
C21_SuccessLiteralPerEndpoint ==
  \A c \in Calls :
    (GotBody(c) /\ call[c].op \in SuccessLiteralOps /\ resp[c].code = StatusOK)
      => /\ BodyStatus(resp[c].body) = <<"successful">> => Failed(c)
         /\ err[c].nil => BodyStatus(resp[c].body) = <<"success">>
         /\ (Decodes(call[c].op, resp[c].body)
               /\ BodyStatus(resp[c].body) = <<"success">>) => err[c].nil

C21_Witness ==
  \E c \in Calls :
    /\ GotBody(c) /\ call[c].op = "GetMobileMoneyPayoutDetails"
    /\ resp[c].code = StatusOK
    /\ resp[c].body = Envelope(<<"successful">>, JStr(<<"ok">>),
                               DocData("GetMobileMoneyPayoutDetails"))
    /\ Failed(c) /\ err[c].text = <<"ok">>

\* C22: for each of the seven operations whose expected status is 200, a
\* call that got a response returns a success (a nil error) if and only if
\* the status is 200, the body is read and decodes into the operation's
\* response shape, and the body status is the operation's success literal;
\* otherwise it fails, so a well-formed success body under another status is
\* a failure.
C22_SuccessIffAllThree ==
  \A c \in Calls :
    (Done(c) /\ HasResponse(c) /\ call[c].op # "InitiatePayment")
      => /\ err[c].nil <=> /\ resp[c].code = StatusOK
                           /\ resp[c].readOK
                           /\ Decodes(call[c].op, resp[c].body)
                           /\ BodyStatus(resp[c].body) = DocStatus(call[c].op)
         /\ ~err[c].nil => Failed(c)

\* a well-formed success body under status 201
C22_Witness ==
  \E c \in Calls :
    /\ GotBody(c) /\ call[c].op = "GetSupportedBanks"
    /\ resp[c].code = 201 /\ resp[c].body = SuccessBody("GetSupportedBanks")
    /\ Failed(c) /\ CarriesCode(c)

\* the body has the validation shape: status "failed" and a message that
\* maps fields to complaints, with at least one complaint
ValidationShape(b) ==
  BodyStatus(b) = <<"failed">> /\ MessageKeys(b) > 0 /\ Complaints(b) # {}

\* C23: InitiateBankPayout, on a non-200 response, tries the validation
\* shape first and falls back to the generic shape: a body that has not the
\* validation shape and carries a message string (status "failed" or any
\* other) gives the error "API error (<code>): <message>", and a body with no
\* usable message gives the status code and the raw body.
C23_BankPayoutFallback ==
  \A c \in Calls :
    (StatusMismatch(c) /\ call[c].op = "InitiateBankPayout")
      => LET b == resp[c].body
             code == FmtD(resp[c].code)
         IN IF ValidationShape(b)
            THEN /\ Contains(err[c].text, <<"validation failed">>)
                 /\ Contains(err[c].text, Raw(b))
            ELSE IF DecodableGeneric(b)
            THEN err[c].text = <<"API error (">> \o code \o <<"): ">> \o BodyMessage(b)
            ELSE err[c].text =
                   <<"API request failed with status ">> \o code \o <<": ">> \o Raw(b)

\* status "failed" with a message string: the generic fallback
C23_Witness ==
  \E c \in Calls :
    /\ StatusMismatch(c) /\ call[c].op = "InitiateBankPayout"
    /\ resp[c].code = 400 /\ BodyStatus(resp[c].body) = <<"failed">>
    /\ BodyMessage(resp[c].body) = <<"Insufficient balance">>
    /\ err[c].text = <<"API error (", "400", "): ", "Insufficient balance">>

\* the operations that marshal the caller's request as it is
NumberAmountOps == {"InitiatePayment", "InitiateMobileMoneyPayout"}

\* what the requests of the three operations with a payload carry as amount
AmountOnWire ==
  \A c \in Calls :
    RequestSent(c)
      => /\ call[c].op \in NumberAmountOps
              => /\ WireAmount(c).t = "num"
                 /\ ~TwoDecimals(WireAmount(c).s)
                 /\ call[c].arg.amount = 1234500
                      => WireAmount(c).s = <<"1", "2", "3", "4", ".", "5">>
         /\ call[c].op = "InitiateBankPayout"
              => (WireAmount(c).t = "str" /\ call[c].arg.amount \in Int)

\* C24: the two-decimal string formatting is applied only in the request of
\* InitiateBankPayout: InitiatePayment and InitiateMobileMoneyPayout send
\* the amount as a JSON number, not formatted, and the request value the
\* caller passed, whose amount is a number, is the same at every step of the
\* call.
C24_FormattingOnlyAtBankPayout ==
  /\ []AmountOnWire
  /\ [][\A c \in Calls :
          (pc[c] # "idle" /\ pc'[c] # "idle") => call'[c].arg = call[c].arg]_vars

C24_Witness ==
  \E c \in Calls :
    /\ RequestSent(c) /\ call[c].op = "InitiateMobileMoneyPayout"
    /\ call[c].arg.amount = 1234500
    /\ WireAmount(c).t = "num"
    /\ WireAmount(c).s = <<"1", "2", "3", "4", ".", "5">>

\* the method and the URL of the per-operation table, for parameter p
TableMethod(op) == IF op \in BodiedOps THEN "POST" ELSE "GET"
TableURL(op, p) ==
  <<"https://api.paychangu.com">> \o
    CASE op = "InitiatePayment" -> <<"/payment">>
      [] op = "VerifyPayment" -> <<"/verify-payment/">> \o p
      [] op = "GetMobileMoneyOperators" -> <<"/mobile-money">>
      [] op = "InitiateMobileMoneyPayout" -> <<"/mobile-money/payouts/initialize">>
      [] op = "GetMobileMoneyPayoutDetails" ->
           <<"/mobile-money/payments/">> \o p \o <<"details">>
      [] op = "GetSupportedBanks" ->
           <<"/direct-charge/payouts/supported-banks?currency=">> \o p
      [] op = "InitiateBankPayout" -> <<"/direct-charge/payouts/initialize">>
      [] op = "GetBankPayoutDetails" ->
           <<"/direct-charge/payouts/">> \o p \o <<"/details">>

\* C25: each operation sends its request with the method and the path of
\* the per-operation table on host api.paychangu.com, the caller's parameter
\* embedded as it was given; GetMobileMoneyPayoutDetails has no slash
\* before "details".
C25_MethodAndPath ==
  \A c \in Calls :
    RequestSent(c)
      => /\ req[c].method = TableMethod(call[c].op)
         /\ req[c].url = TableURL(call[c].op, call[c].arg.ref)

C25_Witness ==
  \E c \in Calls :
    /\ RequestSent(c) /\ call[c].op = "GetMobileMoneyPayoutDetails"
    /\ call[c].arg.ref = <<"PAY", "/", "3", "?", "x">>
    /\ req[c].method = "GET"
    /\ req[c].url = <<"https://api.paychangu.com", "/mobile-money/payments/",
                      "PAY", "/", "3", "?", "x", "details">>

\* the operations that return a pointer
PointerOps == Ops \ {"GetMobileMoneyOperators", "GetSupportedBanks"}
\* the call returned before it had a request to send
BuildFailed(c) == Done(c) /\ sent[c] = 0

\* C26: on every path a call returns by (request build failure, transport
\* failure, body read failure, non-matching status, decode failure, business
\* failure, success) a non-nil error comes with a nil result, and for the
\* six operations that return a pointer a nil error comes with a non-nil
\* result.
C26_ResultErrorPairing ==
  \A c \in Calls :
    Done(c)
      => /\ ~err[c].nil => result[c].nil
         /\ (err[c].nil /\ call[c].op \in PointerOps) => ~result[c].nil

\* the request could not be built
C26_Witness ==
  \E c \in Calls :
    /\ BuildFailed(c) /\ call[c].op = "VerifyPayment"
    /\ call[c].arg.ref = BadRef
    /\ err[c].type = "*url.Error" /\ result[c].nil

\* C27: with a transport that eventually delivers a response or an error,
\* every call that has sent its request eventually returns; and no call that
\* has sent its request returns before the transport has answered (the
\* client sets no deadline).
C27_EventuallyReturns ==
  /\ \A c \in Calls : (pc[c] = "sent") ~> Done(c)
  /\ [](\A c \in Calls :
          (Done(c) /\ sent[c] > 0) => (HasResponse(c) \/ TransportFailed(c)))

\* a call that returned after the transport delivered a response whose body
\* breaks off
C27_Witness ==
  \E c \in Calls :
    /\ Done(c) /\ sent[c] = 1 /\ HasResponse(c) /\ ~resp[c].readOK
    /\ resp[c].code = 500 /\ Failed(c)

\* the two operations that return a list
ListOps == {"GetMobileMoneyOperators", "GetSupportedBanks"}
\* a JSON object without a data member, or with a null one
DataAbsentOrNull(b) ==
  /\ b.json /\ b.node.t = "obj"
  /\ HasKey(b.node, "data") => GetKey(b.node, "data").t = "null"

\* C28: GetMobileMoneyOperators and GetSupportedBanks, given an HTTP 200
\* response with body status "success" whose data member is absent or null,
\* return a nil list and a nil error.
C28_NilListOnSuccess ==
  \A c \in Calls :
    ( /\ GotBody(c) /\ call[c].op \in ListOps /\ resp[c].code = StatusOK
      /\ BodyStatus(resp[c].body) = <<"success">>
      /\ DataAbsentOrNull(resp[c].body) )
      => (err[c].nil /\ result[c].nil /\ result[c].kids = <<>>)

\* the data member null
C28_Witness ==
  \E c \in Calls :
    /\ GotBody(c) /\ call[c].op = "GetMobileMoneyOperators"
    /\ resp[c].code = StatusOK
    /\ resp[c].body = Envelope(<<"success">>, JStr(<<"ok">>), JNull)
    /\ err[c].nil /\ result[c].nil

\* the operations that compare the status member of the body
StatusCheckOps == Ops \ {"InitiatePayment"}
\* a JSON object without a message member, or with an empty string for it
MessageAbsentOrEmpty(b) ==
  /\ b.json /\ b.node.t = "obj"
  /\ HasKey(b.node, "message")
       => (GetKey(b.node, "message").t = "str" /\ GetKey(b.node, "message").s = <<>>)

\* C29: for the seven operations that check the body status, an HTTP 200
\* response whose body decodes, whose status is not the success literal and
\* whose message is absent or empty is a failure: a nil result and a non-nil
\* error, of empty text.
C29_EmptyMessageStillFails ==
  \A c \in Calls :
    ( /\ GotBody(c) /\ call[c].op \in StatusCheckOps /\ resp[c].code = StatusOK
      /\ Decodes(call[c].op, resp[c].body)
      /\ BodyStatus(resp[c].body) # DocStatus(call[c].op)
      /\ MessageAbsentOrEmpty(resp[c].body) )
      => (Failed(c) /\ err[c].text = <<>>)

\* the message member absent
C29_Witness ==
  \E c \in Calls :
    /\ GotBody(c) /\ call[c].op = "GetBankPayoutDetails"
    /\ resp[c].code = StatusOK
    /\ resp[c].body = JsonBody(JObj(<< <<"status", JStr(<<"error">>)>> >>))
    /\ Failed(c) /\ err[c].text = <<>>

\* member name of the payload holds the string s
Carries(payload, name, s) ==
  HasKey(payload, name) /\ GetKey(payload, name) = JStr(s)
\* member name is in the payload exactly when s is not empty, and holds s
CarriesIfSet(payload, name, s) ==
  /\ HasKey(payload, name) <=> s # <<>>
  /\ HasKey(payload, name) => GetKey(payload, name) = JStr(s)
MemberNames(payload) == {payload.kids[i][1] : i \in 1..Len(payload.kids)}

\* C30: the payload InitiateBankPayout sends carries payout_method,
\* bank_uuid, charge_id, bank_account_name and bank_account_number equal to
\* the request's fields, carries email, first_name and last_name exactly
\* when the request's field is not empty, with the request's value, and
\* besides these carries only the amount, as a string.
C30_BankPayloadFrame ==
  \A c \in Calls :
    (RequestSent(c) /\ call[c].op = "InitiateBankPayout")
      => LET payload == req[c].body
             request == call[c].arg
         IN /\ payload.t = "obj"
            /\ Carries(payload, "payout_method", request.payoutMethod)
            /\ Carries(payload, "bank_uuid", request.bankUUID)
            /\ Carries(payload, "charge_id", request.ref)
            /\ Carries(payload, "bank_account_name", request.bankAccountName)
            /\ Carries(payload, "bank_account_number", request.bankAccountNumber)
            /\ CarriesIfSet(payload, "email", request.email)
            /\ CarriesIfSet(payload, "first_name", request.firstName)
            /\ CarriesIfSet(payload, "last_name", request.lastName)
            /\ MemberNames(payload)
                 \subseteq {"payout_method", "bank_uuid", "amount", "charge_id",
                            "bank_account_name", "bank_account_number",
                            "email", "first_name", "last_name"}
            /\ WireAmount(c).t = "str"

\* a request without email and first name, with a last name
C30_Witness ==
  \E c \in Calls :
    /\ RequestSent(c) /\ call[c].op = "InitiateBankPayout"
    /\ call[c].arg.email = <<>> /\ call[c].arg.firstName = <<>>
    /\ call[c].arg.lastName = <<"Doe">>
    /\ ~HasKey(req[c].body, "email") /\ ~HasKey(req[c].body, "first_name")
    /\ Carries(req[c].body, "last_name", <<"Doe">>)

====
